---- MODULE Spec2Model ----
(***************************************************************************)
(* State-reconciliation modules of the crystian.incus collection.  Every   *)
(* module run fetches the state of the Incus server through the `incus`    *)
(* client, compares it with the task parameters and issues the mutating    *)
(* sub-commands it decides on.  A run ends in exit_json or fail_json.      *)
(*                                                                         *)
(* A run is modelled as one action: the handler is evaluated from the      *)
(* state of the server it finds, every sub-command it issues is appended   *)
(* to `cmds` with its exit code, and a sub-command that exits non-zero     *)
(* leaves the server as it was.  Fetch commands (list, show, query, info)  *)
(* read `remote` and leave no trace in `cmds`.                             *)
(***************************************************************************)
EXTENDS Integers, Sequences, FiniteSets, TLC

VARIABLES
    mod,      \* the module the task names
    params,   \* module.params
    check,    \* module.check_mode of the current run
    remote,   \* what the Incus server stores
    cmds,     \* mutating sub-commands issued by the current run, with exit codes
    result,   \* what the current run reported (exit_json / fail_json)
    pc,       \* "ready": the run is about to start, "done": it has ended
    runNo,    \* 1 = the dry run, 2.. = the live runs that follow it
    hist,     \* the finished runs of this task, oldest first
    remote0   \* the server state the task was first run against

vars == <<mod, params, check, remote, cmds, result, pc, runNo, hist, remote0>>

(***************************************************************************)
(* Bounds.                                                                 *)
(***************************************************************************)
\* live runs of the same task made in succession after the dry run
MaxLiveRuns == 2
\* entries a desired config / property / device dictionary may hold
MaxDictLen == 2

(***************************************************************************)
(* Python values.  A YAML task value is a str, an int, a bool or None;     *)
(* str() of it is kept beside its type so that comparisons made on the     *)
(* stringified value can differ from comparisons made on the value.        *)
(***************************************************************************)
PyStr(s) == [t |-> "str", v |-> s]
PyInt(s) == [t |-> "int", v |-> s]
PyNone == [t |-> "NoneType", v |-> "None"]
PyTrue == [t |-> "bool", v |-> "True"]

str(x) == x.v
\* str(v).lower() if isinstance(v, bool) else str(v)
str_lower_if_bool(x) == IF x.t = "bool" THEN (IF x.v = "True" THEN "true" ELSE "false") ELSE x.v
\* '{}'.format(v): str() of any value
format(x) == x.v
truthy(x) == x.t # "NoneType" /\ x.v # "" /\ ~(x.t = "int" /\ x.v = "0") /\ ~(x.t = "bool" /\ x.v = "False")

\* an optional str parameter that was not given
NULL == "<None>"
given(s) == s # NULL /\ s # ""

\* dictionaries keep insertion order: a sequence of <<key, value>> pairs
Keys(d) == {d[i][1] : i \in DOMAIN d}
Range(q) == {q[i] : i \in DOMAIN q}
DictSeqs(K, V) == UNION {[1..n -> K \X V] : n \in 0..MaxDictLen}
Dicts(K, V) == {d \in DictSeqs(K, V) : Cardinality(Keys(d)) = Len(d)}
\* a mapping stored by the server: a function from the keys present to strings
Maps(K, V) == UNION {[D -> V] : D \in SUBSET K}
EmptyMap == [k \in {} |-> ""]
Put(m, k, v) == [x \in DOMAIN m \cup {k} |-> IF x = k THEN v ELSE m[x]]
Drop(m, k) == [x \in DOMAIN m \ {k} |-> m[x]]
get(m, k, default) == IF k \in DOMAIN m THEN m[k] ELSE default

(***************************************************************************)
(* The run in flight: the server, the commands issued so far, the exit     *)
(* code of the last one, the handler's `changed` local and its result.     *)
(***************************************************************************)
NoResult == [status |-> "none", changed |-> FALSE, msg |-> ""]

Begin(r) == [remote |-> r, cmds |-> <<>>, rc |-> 0, err |-> "", changed |-> FALSE,
             done |-> FALSE, result |-> NoResult]

\* AnsibleModule.exit_json / fail_json end the run (SystemExit)
exit_json(s, changed, msg) ==
    {[s EXCEPT !.done = TRUE, !.result = [status |-> "ok", changed |-> changed, msg |-> msg]]}
fail_json(s, msg) ==
    {[s EXCEPT !.done = TRUE, !.result = [status |-> "failed", changed |-> FALSE, msg |-> msg]]}

\* an exception nothing catches ends the process with a traceback: the host
\* gets no result of the module's making
raise_exception(s, exc) ==
    {[s EXCEPT !.done = TRUE, !.result = [status |-> "crashed", changed |-> FALSE, msg |-> exc]]}

\* sequencing: what follows is not executed once the run has ended
Bind(S, K(_)) == UNION {IF s.done THEN {s} ELSE K(s) : s \in S}
set_changed(s) == {[s EXCEPT !.changed = TRUE]}

Cmd(verb, a, b) == [verb |-> verb, a |-> a, b |-> b, rc |-> 0, err |-> ""]


(***************************************************************************)
(* The Incus server.  `remote` holds, per resource kind, the resources     *)
(* that exist.  RCs is the set of exit codes the client can return for a   *)
(* command: any command can fail (the daemon is unreachable, a quota is    *)
(* hit), and a command the server must reject cannot succeed.  Apply is    *)
(* the state after the command has succeeded.  `list` is what the query    *)
(* `incus list --format=json` does while the task runs: "ok", "exit 1"     *)
(* (it exits non-zero) or "undecodable" (it exits 0 with output that is    *)
(* not JSON).                                                              *)
(***************************************************************************)
NoRemote == [instances |-> EmptyMap, pools |-> EmptyMap, snapshots |-> EmptyMap,
             forwards |-> EmptyMap, profiles |-> EmptyMap, files |-> EmptyMap,
             images |-> EmptyMap, networks |-> EmptyMap,
             acls |-> EmptyMap, zones |-> EmptyMap, local |-> EmptyMap,
             list |-> "ok"]

Lookup(d, k) == d[CHOOSE i \in DOMAIN d : d[i][1] = k][2]
Without(d, k) == SelectSeq(d, LAMBDA e : e[1] # k)
\* dict.get(k) / dict.pop(k, None)
pop(d, k) == IF k \in Keys(d) THEN Lookup(d, k) ELSE PyNone
\* the k=v arguments of a command, as the server stores them
Stored(d) == [k \in Keys(d) |-> format(Lookup(d, k))]

\* ---- instances ----
\* incus init: a new instance is stopped, holds the --config keys, no local
\* device, and the --profile list (the default profile when none is named)
NewInstance(c) ==
    [status |-> "Stopped",
     config |-> Stored(c.b.config),
     devices |-> EmptyMap,
     profiles |-> IF c.b.profiles = <<>> THEN <<"default">> ELSE c.b.profiles]

InstanceAccepts(r, c) ==
    LET I == r.instances
        here == c.a \in DOMAIN I
    IN CASE c.verb = "init" -> ~here
         [] c.verb = "move" -> here /\ c.b \notin DOMAIN I /\ I[c.a].status = "Stopped"
         [] c.verb = "copy" -> here /\ c.b \notin DOMAIN I
         [] c.verb = "delete" -> here /\ (c.b \/ I[c.a].status = "Stopped")
         [] c.verb = "start" -> here /\ I[c.a].status = "Stopped"
         [] c.verb = "stop" -> here /\ I[c.a].status # "Stopped"
         [] c.verb = "restart" -> here /\ I[c.a].status # "Stopped"
         [] c.verb = "pause" -> here /\ I[c.a].status = "Running"
         [] c.verb = "resume" -> here /\ I[c.a].status = "Frozen"
         [] c.verb = "rebuild" -> here /\ (c.b \/ I[c.a].status = "Stopped")
         [] c.verb = "config device add" -> here /\ c.b.name \notin DOMAIN I[c.a].devices
         [] c.verb = "config device set" -> here /\ c.b.name \in DOMAIN I[c.a].devices
         [] c.verb = "config device remove" -> here /\ c.b.name \in DOMAIN I[c.a].devices
         [] OTHER -> here

InstanceApply(r, c) ==
    LET I == r.instances
        upd(f) == [r EXCEPT !.instances = [I EXCEPT ![c.a] = f]]
    IN CASE c.verb = "init" ->
              [r EXCEPT !.instances = Put(I, c.a, NewInstance(c))]
         [] c.verb = "move" ->
              [r EXCEPT !.instances = Put(Drop(I, c.a), c.b, I[c.a])]
         [] c.verb = "copy" ->
              [r EXCEPT !.instances = Put(I, c.b, [I[c.a] EXCEPT !.status = "Stopped"])]
         [] c.verb = "delete" -> [r EXCEPT !.instances = Drop(I, c.a)]
         [] c.verb \in {"start", "restart", "resume"} -> upd([I[c.a] EXCEPT !.status = "Running"])
         [] c.verb = "stop" -> upd([I[c.a] EXCEPT !.status = "Stopped"])
         [] c.verb = "pause" -> upd([I[c.a] EXCEPT !.status = "Frozen"])
         [] c.verb = "rebuild" -> r
         [] c.verb = "config set" ->
              upd([I[c.a] EXCEPT !.config = Put(@, c.b[1], c.b[2])])
         [] c.verb = "config unset" ->
              upd([I[c.a] EXCEPT !.config = Drop(@, c.b)])
         [] c.verb = "config device add" ->
              upd([I[c.a] EXCEPT !.devices = Put(@, c.b.name, Put(c.b.attrs, "type", c.b.type))])
         [] c.verb = "config device set" ->
              upd([I[c.a] EXCEPT !.devices =
                      [@ EXCEPT ![c.b.name] = Put(@, c.b.key, c.b.val)]])
         [] c.verb = "config device remove" ->
              upd([I[c.a] EXCEPT !.devices = Drop(@, c.b.name)])
         [] c.verb = "profile assign" -> upd([I[c.a] EXCEPT !.profiles = c.b])

InstanceVerbs == {"init", "move", "copy", "delete", "start", "stop", "restart", "pause", "resume",
                  "rebuild", "config set", "config unset", "config device add",
                  "config device set", "config device remove", "profile assign"}

\* ---- storage pools ----
\* a server that does not enforce the uniqueness of pool names
StorageAccepts_no_uniqueness(r, c) ==
    \/ c.verb = "storage create"
    \/ /\ c.verb \in {"storage set", "storage delete"}
       /\ c.a \in DOMAIN r.pools
       /\ c.verb = "storage delete" => ~r.pools[c.a].used

\* a pool name is unique; a pool that holds volumes or backs instances cannot
\* be deleted
StorageAccepts(r, c) ==
    CASE c.verb = "storage create" -> c.a \notin DOMAIN r.pools
      [] c.verb = "storage set" -> c.a \in DOMAIN r.pools
      [] c.verb = "storage delete" -> c.a \in DOMAIN r.pools /\ ~r.pools[c.a].used

StorageApply(r, c) ==
    CASE c.verb = "storage create" ->
            [r EXCEPT !.pools = Put(@, c.a, [driver |-> c.b.driver,
                                            description |-> c.b.description,
                                            config |-> Stored(c.b.config),
                                            used |-> FALSE])]
      [] c.verb = "storage set" ->
            [r EXCEPT !.pools[c.a].config = Put(@, c.b[1], c.b[2])]
      [] c.verb = "storage delete" -> [r EXCEPT !.pools = Drop(@, c.a)]

StorageVerbs == {"storage create", "storage set", "storage delete"}

\* ---- snapshots ----
\* a snapshot is known by <<instance, snapshot name>>.  "config set snapshot"
\* is `incus config set <instance>/<snapshot> k=v`, "config set pairs" is
\* `incus config set <instance> k=v k=v ...`
RECURSIVE PutAll(_, _)
PutAll(m, pairs) ==
    IF pairs = <<>> THEN m
    ELSE PutAll(Put(m, Head(pairs)[1], Head(pairs)[2]), Tail(pairs))

SnapshotAccepts(r, c) ==
    LET S == DOMAIN r.snapshots
    IN CASE c.verb = "snapshot create" ->
              c.a \in DOMAIN r.instances /\ (<<c.a, c.b.name>> \notin S \/ c.b.reuse)
         [] c.verb = "snapshot delete" -> <<c.a, c.b>> \in S
         [] c.verb = "snapshot restore" -> <<c.a, c.b.name>> \in S
         [] c.verb = "snapshot rename" -> <<c.a, c.b[1]>> \in S /\ <<c.a, c.b[2]>> \notin S
         [] c.verb = "config set snapshot" -> c.a \in S
         [] c.verb = "config set pairs" -> c.a \in DOMAIN r.instances

SnapshotApply(r, c) ==
    CASE c.verb = "snapshot create" ->
            [r EXCEPT !.snapshots = Put(@, <<c.a, c.b.name>>,
                                        [stateful |-> c.b.stateful, config |-> EmptyMap])]
      [] c.verb = "snapshot delete" -> [r EXCEPT !.snapshots = Drop(@, <<c.a, c.b>>)]
      [] c.verb = "snapshot restore" -> r
      [] c.verb = "snapshot rename" ->
            [r EXCEPT !.snapshots = Put(Drop(@, <<c.a, c.b[1]>>), <<c.a, c.b[2]>>,
                                        r.snapshots[<<c.a, c.b[1]>>])]
      [] c.verb = "config set snapshot" ->
            [r EXCEPT !.snapshots[c.a].config = Put(@, c.b[1], c.b[2])]
      [] c.verb = "config set pairs" ->
            [r EXCEPT !.instances[c.a].config = PutAll(@, c.b)]

SnapshotVerbs == {"snapshot create", "snapshot delete", "snapshot restore",
                  "snapshot rename", "config set snapshot", "config set pairs"}

\* ---- network forwards ----
\* a forward is known by <<network, listen address>>; `network forward edit`
\* replaces what the forward holds by the document on its stdin
ForwardAccepts(r, c) ==
    CASE c.verb = "network forward create" -> c.a \notin DOMAIN r.forwards
      [] c.verb = "network forward edit" -> c.a \in DOMAIN r.forwards
      [] c.verb = "network forward delete" -> c.a \in DOMAIN r.forwards

ForwardApply(r, c) ==
    CASE c.verb = "network forward create" ->
            [r EXCEPT !.forwards = Put(@, c.a, [description |-> "", config |-> EmptyMap,
                                               ports |-> <<>>])]
      [] c.verb = "network forward edit" -> [r EXCEPT !.forwards[c.a] = c.b]
      [] c.verb = "network forward delete" -> [r EXCEPT !.forwards = Drop(@, c.a)]

ForwardVerbs == {"network forward create", "network forward edit", "network forward delete"}

\* ---- profiles ----
\* a profile that an instance lists cannot be deleted; `profile create`
\* makes an empty profile and `profile edit` replaces its content
ProfileAccepts(r, c) ==
    LET P == DOMAIN r.profiles
        used == \E i \in DOMAIN r.instances : c.a \in Range(r.instances[i].profiles)
    IN CASE c.verb = "profile create" -> c.a \notin P
         [] c.verb = "profile rename" -> c.a \in P /\ c.b \notin P
         [] c.verb = "profile edit" -> c.a \in P
         [] c.verb = "profile delete" -> c.a \in P /\ ~used

ProfileApply(r, c) ==
    LET P == r.profiles
    IN [r EXCEPT !.profiles =
            CASE c.verb = "profile create" ->
                    Put(P, c.a, [description |-> "", config |-> EmptyMap,
                                 devices |-> EmptyMap])
              [] c.verb = "profile rename" -> Put(Drop(P, c.a), c.b, P[c.a])
              [] c.verb = "profile edit" -> Put(P, c.a, c.b)
              [] c.verb = "profile delete" -> Drop(P, c.a)]

ProfileVerbs == {"profile create", "profile rename", "profile edit", "profile delete"}

\* ---- files inside instances ----
\* files are keyed by <<instance, path>>; push overwrites, pull and delete
\* need the file
FileAccepts(r, c) ==
    CASE c.verb = "file push" -> c.a \in DOMAIN r.instances
      [] c.verb = "file pull" -> <<c.a, c.b>> \in DOMAIN r.files
      [] c.verb = "file delete" -> <<c.a, c.b>> \in DOMAIN r.files

FileApply(r, c) ==
    CASE c.verb = "file push" ->
            [r EXCEPT !.files = Put(@, <<c.a, c.b.path>>,
                                    [content |-> c.b.content, uid |-> c.b.uid,
                                     gid |-> c.b.gid, mode |-> c.b.mode])]
      [] c.verb = "file pull" -> r
      [] c.verb = "file delete" -> [r EXCEPT !.files = Drop(@, <<c.a, c.b>>)]

\* ---- images ----
\* an image is keyed by its fingerprint, a sequence of hex digits, and holds
\* its aliases and properties; an alias names at most one image.  Copying or
\* importing the one known source yields image a1 with the properties of
\* the source; refreshing an image that is out of date replaces it.
ImageOf(r, alias) == {f \in DOMAIN r.images : alias \in r.images[f].aliases}

ImageAccepts(r, c) ==
    CASE c.verb \in {"image copy", "image import"} ->
            ImageOf(r, c.a) = {} /\ c.b \in {"images:alpine/edge", "/tmp/alpine.tar"}
      [] c.verb = "image alias create" -> ImageOf(r, c.a) = {} /\ c.b \in DOMAIN r.images
      [] OTHER -> ImageOf(r, c.a) # {}

ImageApply(r, c) ==
    LET I == r.images
        f == CHOOSE x \in ImageOf(r, c.a) : TRUE
        a1 == <<"a", "1">>
        fresh == [aliases |-> {}, properties |-> [k \in {"os"} |-> "alpine"],
                  stale |-> FALSE]
        with(x, img) == [r EXCEPT !.images = Put(I, x, img)]
    IN CASE c.verb \in {"image copy", "image import"} ->
               LET old == IF a1 \in DOMAIN I THEN I[a1] ELSE fresh
               IN with(a1, [old EXCEPT !.aliases = @ \cup {c.a}])
         [] c.verb = "image refresh" ->
               IF I[f].stale
               THEN [r EXCEPT !.images = Put(Drop(I, f), <<Head(f), "9">>,
                                             [fresh EXCEPT !.aliases = I[f].aliases])]
               ELSE r
         [] c.verb = "image set-property" ->
               with(f, [I[f] EXCEPT !.properties = Put(@, c.b[1], c.b[2])])
         [] c.verb = "image unset-property" ->
               with(f, [I[f] EXCEPT !.properties = Drop(@, c.b)])
         [] c.verb = "image alias delete" ->
               with(f, [I[f] EXCEPT !.aliases = @ \ {c.a}])
         [] c.verb = "image alias create" ->
               with(c.b, [I[c.b] EXCEPT !.aliases = @ \cup {c.a}])
         [] c.verb = "image delete" -> [r EXCEPT !.images = Drop(I, f)]
         [] c.verb = "image export" -> r

ImageVerbs == {"image copy", "image import", "image refresh", "image set-property",
               "image unset-property", "image alias delete", "image alias create",
               "image delete", "image export"}

\* ---- networks ----
\* a network name is unique; a network that instances use cannot be deleted
NetworkAccepts(r, c) ==
    CASE c.verb = "network create" -> c.a \notin DOMAIN r.networks
      [] c.verb = "network delete" -> c.a \in DOMAIN r.networks /\ ~r.networks[c.a].used
      [] OTHER -> c.a \in DOMAIN r.networks

NetworkApply(r, c) ==
    CASE c.verb = "network create" ->
            [r EXCEPT !.networks = Put(@, c.a, [description |-> "", config |-> c.b,
                                               used |-> FALSE])]
      [] c.verb = "network set --property" ->
            [r EXCEPT !.networks[c.a].description = c.b]
      [] c.verb = "network set" ->
            [r EXCEPT !.networks[c.a].config = PutAll(@, c.b)]
      [] c.verb = "network unset" ->
            [r EXCEPT !.networks[c.a].config = Drop(@, c.b)]
      [] c.verb = "network delete" -> [r EXCEPT !.networks = Drop(@, c.a)]

NetworkVerbs == {"network create", "network set --property", "network set",
                 "network unset", "network delete"}

\* ---- network ACLs and network zones ----
\* both are named objects created empty and filled by `edit`; an ACL that a
\* network references cannot be deleted
AclZoneVerbs == {"network acl create", "network acl edit", "network acl delete",
                 "network zone create", "network zone edit", "network zone delete"}
AclZoneKind(c) ==
    IF c.verb \in {"network acl create", "network acl edit", "network acl delete"}
    THEN "acls" ELSE "zones"
AclZoneAccepts(r, c) ==
    LET objects == r[AclZoneKind(c)]
    IN CASE c.verb \in {"network acl create", "network zone create"} ->
               c.a \notin DOMAIN objects
         [] c.verb \in {"network acl edit", "network zone edit"} ->
               c.a \in DOMAIN objects
         [] c.verb \in {"network acl delete", "network zone delete"} ->
               c.a \in DOMAIN objects /\ ~objects[c.a].used

AclZoneApply(r, c) ==
    LET kind == AclZoneKind(c)
        empty == IF kind = "acls"
                 THEN [description |-> "", egress |-> <<>>, ingress |-> <<>>,
                       config |-> EmptyMap, used |-> FALSE]
                 ELSE [description |-> "", config |-> EmptyMap, used |-> FALSE]
    IN CASE c.verb \in {"network acl create", "network zone create"} ->
               [r EXCEPT ![kind] = Put(@, c.a, empty)]
         [] c.verb = "network acl edit" ->
               [r EXCEPT !.acls[c.a] = [description |-> c.b.description,
                                        egress |-> c.b.egress, ingress |-> c.b.ingress,
                                        config |-> c.b.config, used |-> @.used]]
         [] c.verb = "network zone edit" ->
               [r EXCEPT !.zones[c.a] = [description |-> c.b.description,
                                         config |-> c.b.config, used |-> @.used]]
         [] c.verb \in {"network acl delete", "network zone delete"} ->
               [r EXCEPT ![kind] = Drop(@, c.a)]

\* ---- backups on the host's filesystem ----
\* `local` holds the regular files of the host the module runs on.  incus
\* export writes the backup of an existing instance to the target path
ExportAccepts(r, c) == c.a \in DOMAIN r.instances
ExportApply(r, c) == [r EXCEPT !.local = Put(@, c.b, "backup of " \o c.a)]

Accepts(r, c) ==
    CASE c.verb \in InstanceVerbs -> InstanceAccepts(r, c)
      [] c.verb \in ForwardVerbs -> ForwardAccepts(r, c)
      [] c.verb \in StorageVerbs -> StorageAccepts(r, c)
      [] c.verb \in SnapshotVerbs -> SnapshotAccepts(r, c)
      [] c.verb \in ProfileVerbs -> ProfileAccepts(r, c)
      [] c.verb \in {"file push", "file pull", "file delete"} -> FileAccepts(r, c)
      [] c.verb \in ImageVerbs -> ImageAccepts(r, c)
      [] c.verb \in NetworkVerbs -> NetworkAccepts(r, c)
      [] c.verb \in AclZoneVerbs -> AclZoneAccepts(r, c)
      [] c.verb = "export" -> ExportAccepts(r, c)
      [] OTHER -> TRUE
Apply(r, c) ==
    CASE c.verb \in InstanceVerbs -> InstanceApply(r, c)
      [] c.verb \in ForwardVerbs -> ForwardApply(r, c)
      [] c.verb \in StorageVerbs -> StorageApply(r, c)
      [] c.verb \in SnapshotVerbs -> SnapshotApply(r, c)
      [] c.verb \in ProfileVerbs -> ProfileApply(r, c)
      [] c.verb \in {"file push", "file pull", "file delete"} -> FileApply(r, c)
      [] c.verb \in ImageVerbs -> ImageApply(r, c)
      [] c.verb \in NetworkVerbs -> NetworkApply(r, c)
      [] c.verb \in AclZoneVerbs -> AclZoneApply(r, c)
      [] c.verb = "export" -> ExportApply(r, c)
      [] OTHER -> r

\* stderr of a command the server rejects
Rejection(r, c) ==
    IF c.verb = "storage delete" /\ c.a \in DOMAIN r.pools
    THEN "Error: The storage pool is currently in use"
    ELSE IF c.verb = "profile delete" /\ c.a \in DOMAIN r.profiles
    THEN "Error: Profile is currently in use"
    ELSE IF c.verb = "network acl delete" /\ c.a \in DOMAIN r.acls
    THEN "Error: The ACL is currently in use"
    ELSE IF c.verb = "network delete" /\ c.a \in DOMAIN r.networks
    THEN "Error: The network is currently in use"
    ELSE IF c.verb \in {"file pull", "file delete"}
    THEN "Error: Not Found"
    ELSE "Error: rejected"

RCs(r, c) == IF Accepts(r, c) THEN {0, 1} ELSE {1}
Stderr(r, c, rc) ==
    IF rc = 0 THEN {""}
    ELSE {"Error: not reachable"} \cup (IF Accepts(r, c) THEN {} ELSE {Rejection(r, c)})

\* one child process: the command is logged with its exit code; the server
\* changes only when it exits 0
run_command(s, c) ==
    UNION {{[s EXCEPT !.cmds = Append(@, [c EXCEPT !.rc = rc, !.err = err]),
                      !.rc = rc,
                      !.err = err,
                      !.remote = IF rc = 0 THEN Apply(@, c) ELSE @] :
               err \in Stderr(s.remote, c, rc)} : rc \in RCs(s.remote, c)}

\* a Python list parameter, or None
PyList(q) == [t |-> "list", items |-> q]
\* sorted(a) != sorted(b): the two lists differ as multisets
Count(q, x) == Cardinality({i \in DOMAIN q : q[i] = x})
sorted_differ(a, b) == \E x \in Range(a) \cup Range(b) : Count(a, x) # Count(b, x)
lower(status) ==
    CASE status = "Stopped" -> "stopped"
      [] status = "Running" -> "running"
      [] status = "Frozen" -> "frozen"
      [] OTHER -> status

(***************************************************************************)
(* incus_instance                                                          *)
(***************************************************************************)
\* _run_command(cmd): check_rc=True, a non-zero exit ends the run
IncusInstance_run_command(s, c) ==
    Bind(run_command(s, c),
         LAMBDA t : IF t.rc # 0 THEN fail_json(t, "Command execution failed") ELSE {t})

\* a query whose failure is not taken for absence
IncusInstance_get_instance_info_reliable(r, n) ==
    IF n \in DOMAIN r.instances THEN [found |-> TRUE, info |-> r.instances[n]]
    ELSE [found |-> FALSE]

\* incus list --format=json ^name$ : the instance, or None; None as well when
\* the query exits non-zero (check_rc=False) or json.loads raises ValueError
IncusInstance_get_instance_info(r, n) ==
    IF r.list = "exit 1" THEN [found |-> FALSE]
    ELSE IF r.list = "undecodable" THEN [found |-> FALSE]
    ELSE IF n \in DOMAIN r.instances THEN [found |-> TRUE, info |-> r.instances[n]]
    ELSE [found |-> FALSE]

IncusInstance_create_instance(s, p) ==
    IF ~given(p.remote_image) /\ ~p.empty
    THEN fail_json(s, "remote_image is required when creating an instance")
    ELSE IncusInstance_run_command(s,
            Cmd("init", p.name,
                [config |-> p.config,
                 profiles |-> IF p.profiles.t = "list" THEN p.profiles.items ELSE <<>>]))

RECURSIVE IncusInstance_devices_loop(_, _, _, _)
IncusInstance_devices_loop(s, p, current_devices, todo) ==
    IF todo = <<>> THEN {s}
    ELSE LET device_name == Head(todo)[1]
             device_config == Head(todo)[2]
             cfg == Without(device_config, "type")
             dtype == pop(device_config, "type")
             rest(t) == IncusInstance_devices_loop(t, p, current_devices, Tail(todo))
         IN IF device_name \in DOMAIN current_devices THEN rest(s)
            ELSE IF ~truthy(dtype)
            THEN fail_json(s, "Device missing required 'type'")
            ELSE Bind(IncusInstance_run_command(s,
                         Cmd("config device add", p.name,
                             [name |-> device_name, type |-> str(dtype), attrs |-> Stored(cfg)])),
                      rest)

IncusInstance_configure_devices(s, p) ==
    IF p.devices = <<>> THEN {s}
    ELSE LET got == IncusInstance_get_instance_info(s.remote, p.name)
             current_devices == IF got.found THEN got.info.devices ELSE EmptyMap
         IN IncusInstance_devices_loop(s, p, current_devices, p.devices)

\* current_config.get(k) != str(v)
IncusInstance_config_differs_raw(current_config, k, v) ==
    k \notin DOMAIN current_config \/ v.t # "str" \/ current_config[k] # v.v
IncusInstance_config_differs(current_config, k, v) ==
    get(current_config, k, NULL) # str(v)

RECURSIVE IncusInstance_config_loop(_, _, _, _)
IncusInstance_config_loop(s, p, current_config, todo) ==
    IF todo = <<>> THEN {s}
    ELSE LET k == Head(todo)[1]
             v == Head(todo)[2]
             rest(t) == IncusInstance_config_loop(t, p, current_config, Tail(todo))
         IN IF IncusInstance_config_differs(current_config, k, v)
            THEN Bind(Bind(IncusInstance_run_command(s, Cmd("config set", p.name, <<k, str(v)>>)),
                           set_changed),
                      rest)
            ELSE rest(s)

\* the flag configure_config returns is or-ed into `changed` by run
IncusInstance_configure_config(s, p) ==
    IF p.config = <<>> THEN {s}
    ELSE LET got == IncusInstance_get_instance_info(s.remote, p.name)
             current_config == IF got.found THEN got.info.config ELSE EmptyMap
         IN IncusInstance_config_loop(s, p, current_config, p.config)

IncusInstance_configure_profiles(s, p, chk) ==
    IF p.profiles.t = "NoneType" THEN {s}
    ELSE LET got == IncusInstance_get_instance_info(s.remote, p.name)
             current_profiles == IF got.found THEN got.info.profiles ELSE <<>>
         IN IF sorted_differ(current_profiles, p.profiles.items)
            THEN IF chk THEN set_changed(s)
                 ELSE Bind(IncusInstance_run_command(s,
                              Cmd("profile assign", p.name, p.profiles.items)),
                           set_changed)
            ELSE {s}

\* the rename_from block at the head of run
IncusInstance_rename(s, p, chk) ==
    IF p.state = "present" /\ given(p.rename_from)
    THEN LET source_info == IncusInstance_get_instance_info(s.remote, p.rename_from)
             target_info == IncusInstance_get_instance_info(s.remote, p.name)
         IN IF source_info.found /\ ~target_info.found
            THEN IF chk THEN exit_json(s, TRUE, "Instance would be renamed")
                 ELSE Bind(IncusInstance_run_command(s, Cmd("move", p.rename_from, p.name)),
                           set_changed)
            ELSE IF ~source_info.found /\ ~target_info.found
            THEN fail_json(s, "Source instance for rename not found")
            ELSE {s}
    ELSE {s}

IncusInstance_absent(s, p, chk) ==
    IF IncusInstance_get_instance_info(s.remote, p.name).found
    THEN IF chk THEN exit_json(s, TRUE, "Instance would be deleted")
         ELSE Bind(IncusInstance_run_command(s, Cmd("delete", p.name, p.force)),
                   LAMBDA t : exit_json(t, TRUE, ""))
    ELSE exit_json(s, FALSE, "Instance already absent")

\* the started / stopped enforcement that closes state=present
IncusInstance_power(s, p, chk, current_status) ==
    IF p.started /\ current_status = "stopped"
    THEN IF chk THEN exit_json(s, TRUE, "Instance would be started")
         ELSE Bind(IncusInstance_run_command(s, Cmd("start", p.name, FALSE)), set_changed)
    ELSE IF ~p.started /\ current_status = "running"
    THEN IF chk THEN exit_json(s, TRUE, "Instance would be stopped")
         ELSE Bind(IncusInstance_run_command(s, Cmd("stop", p.name, p.force)), set_changed)
    ELSE {s}

IncusInstance_present(s, p, chk) ==
    LET got == IncusInstance_get_instance_info(s.remote, p.name)
        finish(t, info) ==
            Bind(IncusInstance_power(t, p, chk, lower(info.status)),
                 LAMBDA u : exit_json(u, u.changed, ""))
    IN IF ~got.found
       THEN IF chk THEN exit_json(s, TRUE, "Instance would be created")
            ELSE Bind(Bind(Bind(IncusInstance_create_instance(s, p),
                                LAMBDA t : IncusInstance_configure_devices(t, p)),
                           set_changed),
                      LAMBDA t :
                        LET again == IncusInstance_get_instance_info(t.remote, p.name)
                        IN IF ~again.found
                           THEN fail_json(t, "Instance created but could not be retrieved.")
                           ELSE finish(t, again.info))
       ELSE Bind(Bind(Bind(IncusInstance_configure_config(s, p),
                           LAMBDA t : IncusInstance_configure_devices(t, p)),
                      LAMBDA t : IncusInstance_configure_profiles(t, p, chk)),
                 LAMBDA t : finish(t, got.info))

\* current_status != 'running' ends state=frozen in fail_json
IncusInstance_may_freeze_always(current_status) == TRUE
IncusInstance_may_freeze(current_status) == current_status = "running"

\* if not info: fail_json(... not found ...), ahead of the check-mode exit
IncusInstance_require_info_lenient(s, got) ==
    IF ~got.found THEN exit_json(s, FALSE, "Instance not found") ELSE {s}
IncusInstance_require_info(s, got) ==
    IF ~got.found THEN fail_json(s, "Instance not found") ELSE {s}

\* state in restarted, frozen, unfrozen, rebuilt
IncusInstance_transition(s, p, chk) ==
    LET got == IncusInstance_get_instance_info(s.remote, p.name)
        current_status == lower(got.info.status)
        done(t) == exit_json(t, TRUE, "")
    IN Bind(IncusInstance_require_info(s, got), LAMBDA u :
            CASE p.state = "restarted" ->
                   IF chk THEN exit_json(u, TRUE, "Instance would be restarted")
                   ELSE IF current_status = "stopped"
                   THEN Bind(IncusInstance_run_command(u, Cmd("start", p.name, FALSE)), done)
                   ELSE Bind(IncusInstance_run_command(u, Cmd("restart", p.name, p.force)), done)
              [] p.state = "frozen" ->
                   IF current_status = "frozen"
                   THEN exit_json(u, FALSE, "Instance already frozen")
                   ELSE IF ~IncusInstance_may_freeze(current_status)
                   THEN fail_json(u, "Instance must be running to freeze")
                   ELSE IF chk THEN exit_json(u, TRUE, "Instance would be frozen")
                   ELSE Bind(IncusInstance_run_command(u, Cmd("pause", p.name, FALSE)), done)
              [] p.state = "unfrozen" ->
                   IF current_status = "running"
                   THEN exit_json(u, FALSE, "Instance already running")
                   ELSE IF current_status # "frozen"
                   THEN fail_json(u, "Instance must be frozen to unfreeze")
                   ELSE IF chk THEN exit_json(u, TRUE, "Instance would be unfrozen")
                   ELSE Bind(IncusInstance_run_command(u, Cmd("resume", p.name, FALSE)), done)
              [] p.state = "rebuilt" ->
                   IF chk THEN exit_json(u, TRUE, "Instance would be rebuilt")
                   ELSE Bind(IncusInstance_run_command(u, Cmd("rebuild", p.name, p.force)), done))

IncusInstance_run(s, p, chk) ==
    Bind(IncusInstance_rename(s, p, chk),
         LAMBDA t : CASE p.state = "absent" -> IncusInstance_absent(t, p, chk)
                      [] p.state = "present" -> IncusInstance_present(t, p, chk)
                      [] OTHER -> IncusInstance_transition(t, p, chk))

(***************************************************************************)
(* incus_config.  `config` and `devices` are raw parameters: a dict, a     *)
(* list of names (for state=absent) or None.                               *)
(***************************************************************************)
PyDict(d) == [t |-> "dict", items |-> d]

\* module.run_command(cmd, check_rc=True)
IncusConfig_run_command(s, c) ==
    Bind(run_command(s, c),
         LAMBDA t : IF t.rc # 0 THEN fail_json(t, "Command execution failed") ELSE {t})

\* {k: None for k in config} / {k: {} for k in devices}: a name listed twice
\* is one key, at the place of its first occurrence
NamesToDict_keep_duplicates(q, v) == [i \in DOMAIN q |-> <<q[i], v>>]
NamesToDict(q, v) ==
    LET F[i \in 0..Len(q)] ==
            IF i = 0 THEN <<>>
            ELSE IF q[i] \in {q[j] : j \in 1..(i - 1)} THEN F[i - 1]
            ELSE Append(F[i - 1], <<q[i], v>>)
    IN F[Len(q)]

RECURSIVE IncusConfig_config_loop(_, _, _, _, _)
IncusConfig_config_loop(s, p, chk, local_config, todo) ==
    IF todo = <<>> THEN {s}
    ELSE LET key == Head(todo)[1]
             value == Head(todo)[2]
             val_str == str(value)
             rest(t) == IncusConfig_config_loop(t, p, chk, local_config, Tail(todo))
             apply(c) == Bind(Bind(IF chk THEN {s} ELSE IncusConfig_run_command(s, c),
                                   set_changed),
                              rest)
         IN IF p.state = "present"
            THEN IF key \notin DOMAIN local_config \/ local_config[key] # val_str
                 THEN apply(Cmd("config set", p.instance_name, <<key, val_str>>))
                 ELSE rest(s)
            ELSE IF key \in DOMAIN local_config
                 THEN apply(Cmd("config unset", p.instance_name, key))
                 ELSE rest(s)

IncusConfig_process_config(s, p, chk, current_info) ==
    IF p.config.t = "NoneType" \/ p.config.items = <<>> THEN {s}
    ELSE IF p.state = "absent" /\ p.config.t = "list"
    THEN IncusConfig_config_loop(s, p, chk, current_info.config,
                                 NamesToDict(p.config.items, PyNone))
    ELSE IF p.config.t = "dict"
    THEN IncusConfig_config_loop(s, p, chk, current_info.config, p.config.items)
    ELSE fail_json(s, "'config' must be a dict or list (for absent)")

RECURSIVE IncusConfig_attrs_loop(_, _, _, _, _, _)
IncusConfig_attrs_loop(s, p, chk, dev_name, current_dev_conf, todo) ==
    IF todo = <<>> THEN {s}
    ELSE LET k == Head(todo)[1]
             val_str == str(Head(todo)[2])
             rest(t) == IncusConfig_attrs_loop(t, p, chk, dev_name, current_dev_conf, Tail(todo))
         IN IF k = "type" THEN rest(s)
            ELSE IF k \notin DOMAIN current_dev_conf \/ current_dev_conf[k] # val_str
            THEN Bind(Bind(IF chk THEN {s}
                           ELSE IncusConfig_run_command(s,
                                   Cmd("config device set", p.instance_name,
                                       [name |-> dev_name, key |-> k, val |-> val_str])),
                           set_changed),
                      rest)
            ELSE rest(s)

\* what process_devices does with one named device
IncusConfig_device_action_stateless(p, dev_name, local_devices) ==
    IF dev_name \in DOMAIN local_devices THEN "remove" ELSE "add"
IncusConfig_device_action(p, dev_name, local_devices) ==
    IF p.state = "present"
    THEN IF dev_name \notin DOMAIN local_devices THEN "add" ELSE "update"
    ELSE IF dev_name \in DOMAIN local_devices THEN "remove" ELSE "skip"

RECURSIVE IncusConfig_devices_loop(_, _, _, _, _)
IncusConfig_devices_loop(s, p, chk, local_devices, todo) ==
    IF todo = <<>> THEN {s}
    ELSE LET dev_name == Head(todo)[1]
             dev_conf == Head(todo)[2]
             dtype == pop(dev_conf, "type")
             rest(t) == IncusConfig_devices_loop(t, p, chk, local_devices, Tail(todo))
             action == IncusConfig_device_action(p, dev_name, local_devices)
         IN CASE action = "add" ->
                   IF ~truthy(dtype)
                   THEN fail_json(s, "Device missing required 'type' for creation")
                   ELSE Bind(Bind(IF chk THEN {s}
                                  ELSE IncusConfig_run_command(s,
                                          Cmd("config device add", p.instance_name,
                                              [name |-> dev_name, type |-> str(dtype),
                                               attrs |-> Stored(Without(dev_conf, "type"))])),
                                  set_changed),
                             rest)
              [] action = "update" ->
                   Bind(IncusConfig_attrs_loop(s, p, chk, dev_name,
                                               local_devices[dev_name], dev_conf),
                        rest)
              [] action = "remove" ->
                   Bind(Bind(IF chk THEN {s}
                             ELSE IncusConfig_run_command(s,
                                     Cmd("config device remove", p.instance_name,
                                         [name |-> dev_name])),
                             set_changed),
                        rest)
              [] OTHER -> rest(s)

IncusConfig_process_devices(s, p, chk, current_info) ==
    IF p.devices.t = "NoneType" \/ p.devices.items = <<>> THEN {s}
    ELSE IF p.state = "absent" /\ p.devices.t = "list"
    THEN IncusConfig_devices_loop(s, p, chk, current_info.devices,
                                  NamesToDict(p.devices.items, <<>>))
    ELSE IF p.devices.t = "dict"
    THEN IncusConfig_devices_loop(s, p, chk, current_info.devices, p.devices.items)
    ELSE fail_json(s, "'devices' must be a dict or list (for absent)")

\* get_instance_config fails the run when `incus config show` exits non-zero;
\* changed = changed_config or changed_devices
IncusConfig_run(s, p, chk) ==
    IF p.instance_name \notin DOMAIN s.remote.instances
    THEN fail_json(s, "Failed to get config")
    ELSE LET current_info == s.remote.instances[p.instance_name]
         IN Bind(Bind(IncusConfig_process_config(s, p, chk, current_info),
                      LAMBDA t : IncusConfig_process_devices(t, p, chk, current_info)),
                 LAMBDA t : exit_json(t, t.changed, ""))

(***************************************************************************)
(* incus_storage                                                           *)
(***************************************************************************)
\* 'in use' in err.lower() or 'currently used' in err.lower() or ...
in_use(err) == err = "Error: The storage pool is currently in use"

\* incus storage show: the pool, or None
IncusStorage_get_pool_info(r, n) ==
    IF n \in DOMAIN r.pools THEN [found |-> TRUE, info |-> r.pools[n]]
    ELSE [found |-> FALSE]

IncusStorage_create(s, p, chk) ==
    IF chk THEN exit_json(s, TRUE, "Storage pool would be created")
    ELSE Bind(run_command(s, Cmd("storage create", p.name,
                                 [driver |-> p.driver,
                                  description |-> IF given(p.description)
                                                  THEN p.description ELSE "",
                                  config |-> p.config])),
              LAMBDA t : IF t.rc # 0
                         THEN fail_json(t, "Failed to create storage pool")
                         ELSE exit_json(t, TRUE, "Storage pool created"))

\* str(curr_val) != str(v), with curr_val = current_config.get(k, '')
IncusStorage_config_differs(current_config, k, v) ==
    get(current_config, k, "") # str(v)

RECURSIVE IncusStorage_config_loop(_, _, _, _, _)
IncusStorage_config_loop(s, p, chk, current_config, todo) ==
    IF todo = <<>> THEN {s}
    ELSE LET k == Head(todo)[1]
             v == Head(todo)[2]
             rest(t) == IncusStorage_config_loop(t, p, chk, current_config, Tail(todo))
         IN IF IncusStorage_config_differs(current_config, k, v)
            THEN Bind(Bind(IF chk THEN {s}
                           ELSE Bind(run_command(s, Cmd("storage set", p.name,
                                                         <<k, format(v)>>)),
                                     LAMBDA t : IF t.rc # 0
                                                THEN fail_json(t, "Failed to set config option")
                                                ELSE {t}),
                           set_changed),
                      rest)
            ELSE rest(s)

\* the description is compared and then left alone
IncusStorage_update(s, p, chk, current_info) ==
    Bind(IncusStorage_config_loop(s, p, chk, current_info.config, p.config),
         LAMBDA t : IF t.changed THEN exit_json(t, TRUE, "Updated config")
                    ELSE exit_json(t, FALSE, "Storage pool already matches configuration"))

\* rc != 0 after `storage delete`
IncusStorage_delete_failed_never(rc) == FALSE
IncusStorage_delete_failed(rc) == rc # 0

IncusStorage_delete(s, p, chk) ==
    IF chk THEN exit_json(s, TRUE, "Storage pool would be deleted")
    ELSE Bind(run_command(s, Cmd("storage delete", p.name, <<>>)),
              LAMBDA t :
                  IF IncusStorage_delete_failed(t.rc)
                  THEN IF ~p.force /\ in_use(t.err)
                       THEN fail_json(t, "Cannot delete storage pool: it has volumes or instances using it. Use force=true to override.")
                       ELSE fail_json(t, "Failed to delete storage pool")
                  ELSE exit_json(t, TRUE, "Storage pool deleted"))

\* run() from the point where get_pool_info() has returned
IncusStorage_run_after_fetch(s, p, chk, current_info) ==
    IF p.state = "present"
    THEN IF ~current_info.found
         THEN IF ~given(p.driver)
              THEN fail_json(s, "'driver' is required when creating a storage pool")
              ELSE IncusStorage_create(s, p, chk)
         ELSE IncusStorage_update(s, p, chk, current_info.info)
    ELSE IF current_info.found
         THEN IncusStorage_delete(s, p, chk)
         ELSE exit_json(s, FALSE, "Storage pool not found")

IncusStorage_run(s, p, chk) ==
    IncusStorage_run_after_fetch(s, p, chk, IncusStorage_get_pool_info(s.remote, p.name))

(***************************************************************************)
(* incus_snapshot                                                          *)
(***************************************************************************)
\* incus snapshot show <instance> <snapshot> exits 0
IncusSnapshot_exists(r, p) == <<p.instance, p.snapshot_name>> \in DOMAIN r.snapshots

\* the exit code of `config set <instance>/<snapshot> snapshots.expiry=...`
\* is not looked at
IncusSnapshot_set_expiry(s, p) ==
    run_command(s, Cmd("config set snapshot", <<p.instance, p.snapshot_name>>,
                       <<"snapshots.expiry", p.expires>>))

IncusSnapshot_create(s, p, chk) ==
    IF IncusSnapshot_exists(s.remote, p) /\ ~p.reuse
    THEN exit_json(s, FALSE, "Snapshot already exists")
    ELSE IF chk THEN exit_json(s, TRUE, "Snapshot would be created")
    ELSE Bind(Bind(Bind(run_command(s, Cmd("snapshot create", p.instance,
                                           [name |-> p.snapshot_name, reuse |-> p.reuse,
                                            stateful |-> p.stateful])),
                        LAMBDA t : IF t.rc # 0
                                   THEN fail_json(t, "Failed to create snapshot")
                                   ELSE {t}),
                   LAMBDA t : IF given(p.expires) /\ ~chk
                              THEN IncusSnapshot_set_expiry(t, p)
                              ELSE {t}),
              LAMBDA t : exit_json(t, TRUE, "Snapshot created"))

IncusSnapshot_delete(s, p, chk) ==
    IF ~IncusSnapshot_exists(s.remote, p) THEN exit_json(s, FALSE, "Snapshot not found")
    ELSE IF chk THEN exit_json(s, TRUE, "Snapshot would be deleted")
    ELSE Bind(run_command(s, Cmd("snapshot delete", p.instance, p.snapshot_name)),
              LAMBDA t : IF t.rc # 0 THEN fail_json(t, "Failed to delete snapshot")
                         ELSE exit_json(t, TRUE, "Snapshot deleted"))

IncusSnapshot_restore(s, p, chk) ==
    IF ~IncusSnapshot_exists(s.remote, p) THEN fail_json(s, "Snapshot does not exist")
    ELSE IF chk THEN exit_json(s, TRUE, "Instance would be restored from snapshot")
    ELSE Bind(run_command(s, Cmd("snapshot restore", p.instance,
                                 [name |-> p.snapshot_name, stateful |-> p.stateful])),
              LAMBDA t : IF t.rc # 0 THEN fail_json(t, "Failed to restore snapshot")
                         ELSE exit_json(t, TRUE, "Instance restored"))

IncusSnapshot_rename(s, p, chk) ==
    IF ~IncusSnapshot_exists(s.remote, p) THEN fail_json(s, "Snapshot does not exist")
    ELSE IF ~given(p.new_name) THEN fail_json(s, "'new_name' is required for state=renamed")
    ELSE IF <<p.instance, p.new_name>> \in DOMAIN s.remote.snapshots
    THEN exit_json(s, FALSE, "Snapshot already exists (as new name)")
    ELSE IF chk THEN exit_json(s, TRUE, "Snapshot would be renamed")
    ELSE Bind(run_command(s, Cmd("snapshot rename", p.instance,
                                 <<p.snapshot_name, p.new_name>>)),
              LAMBDA t : IF t.rc # 0 THEN fail_json(t, "Failed to rename snapshot")
                         ELSE exit_json(t, TRUE, "Snapshot renamed"))

\* the configs dictionary, in the order its keys are inserted
IncusSnapshot_configs(p) ==
    (IF p.cron # NULL THEN <<<<"snapshots.schedule", p.cron>>>> ELSE <<>>)
    \o (IF p.cron_stopped.t # "NoneType"
        THEN <<<<"snapshots.schedule.stopped", str_lower_if_bool(p.cron_stopped)>>>>
        ELSE <<>>)
    \o (IF p.pattern # NULL THEN <<<<"snapshots.pattern", p.pattern>>>> ELSE <<>>)
    \o (IF p.expiry # NULL THEN <<<<"snapshots.expiry", p.expiry>>>> ELSE <<>>)

\* with nothing to configure the handler returns without exit_json; the
\* current configuration is fetched and never compared
IncusSnapshot_configure(s, p, chk) ==
    LET configs == IncusSnapshot_configs(p)
    IN IF configs = <<>> THEN {[s EXCEPT !.done = TRUE]}
       ELSE IF chk
       THEN exit_json(s, TRUE, "Instance snapshot configuration would be updated")
       ELSE Bind(run_command(s, Cmd("config set pairs", p.instance, configs)),
                 LAMBDA t : IF t.rc # 0 THEN fail_json(t, "Failed to update configuration")
                            ELSE exit_json(t, TRUE, "Instance snapshot configuration updated"))

IncusSnapshot_run(s, p, chk) ==
    CASE p.state = "present" ->
            IF given(p.snapshot_name) THEN IncusSnapshot_create(s, p, chk)
            ELSE IncusSnapshot_configure(s, p, chk)
      [] p.state = "absent" -> IncusSnapshot_delete(s, p, chk)
      [] p.state = "restored" -> IncusSnapshot_restore(s, p, chk)
      [] p.state = "renamed" -> IncusSnapshot_rename(s, p, chk)

(***************************************************************************)
(* incus_network_forward                                                   *)
(***************************************************************************)
PortKeys == {"protocol", "listen_port", "target_address", "target_port", "description"}
\* the listen ports of the tasks, in the order Python sorts the strings
PortOrder == <<"443", "80">>
Rank(x) == IF \E i \in DOMAIN PortOrder : PortOrder[i] = x
           THEN CHOOSE i \in DOMAIN PortOrder : PortOrder[i] = x
           ELSE 0

\* sorted(ports, key=lambda k: k.get('listen_port', '')): a stable sort
RECURSIVE SortedByListenPort(_)
SortedByListenPort(q) ==
    IF q = <<>> THEN <<>>
    ELSE LET x == q[Len(q)]
             front == SortedByListenPort(SubSeq(q, 1, Len(q) - 1))
             key(p) == Rank(get(p, "listen_port", ""))
             n == Cardinality({i \in DOMAIN front : key(front[i]) <= key(x)})
         IN SubSeq(front, 1, n) \o <<x>> \o SubSeq(front, n + 1, Len(front))

\* the defaults both normalisations add
IncusNetworkForward_port_defaults(new_p) ==
    LET d == IF "description" \notin DOMAIN new_p THEN Put(new_p, "description", "")
             ELSE new_p
    IN IF "target_port" \notin DOMAIN d /\ "listen_port" \in DOMAIN d
       THEN Put(d, "target_port", d["listen_port"])
       ELSE d

\* a port as `network forward show` prints it: the keys the server holds
IncusNetworkForward_normalized_current(p) ==
    IncusNetworkForward_port_defaults([k \in DOMAIN p \cap PortKeys |-> p[k]])
\* a port of the task: the sub-options that were not given are None
IncusNetworkForward_normalized_desired(p) ==
    IncusNetworkForward_port_defaults([k \in {x \in PortKeys : p[x] # NULL} |-> p[k]])

IncusNetworkForward_ports_differ(current_ports, ports) ==
    LET current_sorted == SortedByListenPort(current_ports)
        desired_sorted == SortedByListenPort(ports)
    IN [i \in DOMAIN current_sorted |->
            IncusNetworkForward_normalized_current(current_sorted[i])]
       # [i \in DOMAIN desired_sorted |->
              IncusNetworkForward_normalized_desired(desired_sorted[i])]

\* current.get('config') != self.config: the values are compared as they are
IncusNetworkForward_config_differs(current_config, config) ==
    \/ DOMAIN current_config # Keys(config)
    \/ \E k \in Keys(config) : Lookup(config, k) # PyStr(current_config[k])

\* yaml.dump(desired) as the server reads it
YamlPort(p) == [k \in {x \in PortKeys : p[x] # NULL} |-> p[k]]
IncusNetworkForward_desired(p, current) ==
    [description |-> IF p.description # NULL THEN p.description
                     ELSE IF current.found THEN current.info.description ELSE "",
     config |-> IF p.config.t = "dict" THEN Stored(p.config.items)
                ELSE IF current.found THEN current.info.config ELSE EmptyMap,
     ports |-> IF p.ports.t = "list" THEN [i \in DOMAIN p.ports.items |-> YamlPort(p.ports.items[i])]
               ELSE IF current.found THEN current.info.ports ELSE <<>>]

IncusNetworkForward_get_forward(r, p) ==
    IF <<p.network, p.listen_address>> \in DOMAIN r.forwards
    THEN [found |-> TRUE, info |-> r.forwards[<<p.network, p.listen_address>>]]
    ELSE [found |-> FALSE]

\* a failure that leaves the object it has just created behind
delete_created_never(s, c, msg) == fail_json(s, msg)
\* the edit of a created object failed: the object is deleted (check_rc=False,
\* the outcome is not looked at) and the run fails
delete_created(s, c, msg) ==
    Bind(run_command(s, c), LAMBDA u : fail_json(u, msg))

\* changes_needed, on the forward that get_forward() returned
IncusNetworkForward_changes_needed(p, info) ==
    \/ p.description # NULL /\ info.description # p.description
    \/ p.config.t = "dict"
         /\ IncusNetworkForward_config_differs(info.config, p.config.items)
    \/ p.ports.t = "list"
         /\ IncusNetworkForward_ports_differ(info.ports, p.ports.items)

IncusNetworkForward_create_or_update(s, p, chk) ==
    LET current == IncusNetworkForward_get_forward(s.remote, p)
        desired == IncusNetworkForward_desired(p, current)
        target == <<p.network, p.listen_address>>
        edit(t) == run_command(t, Cmd("network forward edit", target, desired))
    IN IF current.found
       THEN IF ~IncusNetworkForward_changes_needed(p, current.info)
            THEN exit_json(s, FALSE, "Network forward matches configuration")
            ELSE IF chk THEN exit_json(s, TRUE, "Network forward would be updated")
            ELSE Bind(edit(s),
                      LAMBDA t : IF t.rc # 0
                                 THEN fail_json(t, "Failed to update network forward")
                                 ELSE exit_json(t, TRUE, "Network forward updated"))
       ELSE IF chk THEN exit_json(s, TRUE, "Network forward would be created")
       ELSE Bind(Bind(Bind(run_command(s, Cmd("network forward create", target, <<>>)),
                           LAMBDA t : IF t.rc # 0
                                      THEN fail_json(t, "Failed to create network forward")
                                      ELSE {t}),
                      edit),
                 LAMBDA t :
                     IF t.rc # 0
                     THEN delete_created(t, Cmd("network forward delete", target, <<>>),
                                         "Failed to configure created network forward")
                     ELSE exit_json(t, TRUE, "Network forward created"))

IncusNetworkForward_delete(s, p, chk) ==
    LET current == IncusNetworkForward_get_forward(s.remote, p)
    IN IF chk
       THEN IF current.found THEN exit_json(s, TRUE, "Network forward would be deleted")
            ELSE exit_json(s, FALSE, "Network forward already absent")
       ELSE IF ~current.found THEN exit_json(s, FALSE, "Network forward already absent")
       ELSE Bind(run_command(s, Cmd("network forward delete",
                                    <<p.network, p.listen_address>>, <<>>)),
                 LAMBDA t : IF t.rc # 0
                            THEN fail_json(t, "Failed to delete network forward")
                            ELSE exit_json(t, TRUE, "Network forward deleted"))

IncusNetworkForward_run(s, p, chk) ==
    IF p.state = "present" THEN IncusNetworkForward_create_or_update(s, p, chk)
    ELSE IncusNetworkForward_delete(s, p, chk)

(***************************************************************************)
(* incus_profile, without a `source` file                                  *)
(***************************************************************************)
\* incus profile show: the profile, or None
IncusProfile_get_profile(r, n) ==
    IF n \in DOMAIN r.profiles THEN [found |-> TRUE, info |-> r.profiles[n]]
    ELSE [found |-> FALSE]

\* the current profile overlaid with the parameters given: a None value
\* drops the key, any other is stored as str(v)
IncusProfile_get_desired_state(p, current_profile) ==
    LET F[i \in 0..Len(p.config.items)] ==
            IF i = 0 THEN current_profile.config
            ELSE LET k == p.config.items[i][1]
                     v == p.config.items[i][2]
                 IN IF v.t = "NoneType" THEN Drop(F[i - 1], k)
                    ELSE Put(F[i - 1], k, str(v))
    IN [description |-> IF p.description # NULL THEN p.description
                        ELSE current_profile.description,
        config |-> IF p.config.t = "NoneType" THEN current_profile.config
                   ELSE F[Len(p.config.items)],
        devices |-> IF p.devices.t = "NoneType" THEN current_profile.devices
                    ELSE PutAll(current_profile.devices, p.devices.items)]

IncusProfile_update(s, p, chk, new_create) ==
    LET current == IncusProfile_get_profile(s.remote, p.name)
        desired == IncusProfile_get_desired_state(p, current.info)
    IN IF ~current.found THEN fail_json(s, "Profile not found for update")
       ELSE IF desired = current.info /\ ~new_create
       THEN exit_json(s, FALSE, "Profile matches configuration")
       ELSE IF chk THEN exit_json(s, TRUE, "Profile would be updated")
       ELSE Bind(run_command(s, Cmd("profile edit", p.name, desired)),
                 LAMBDA t : IF t.rc # 0 THEN fail_json(t, "Failed to update profile")
                            ELSE exit_json(t, TRUE, "Profile updated"))

IncusProfile_create(s, p, chk) ==
    Bind(run_command(s, Cmd("profile create", p.name, <<>>)),
         LAMBDA t : IF t.rc # 0 THEN fail_json(t, "Failed to create profile")
                    ELSE IncusProfile_update(t, p, chk, TRUE))

IncusProfile_rename(s, p, chk) ==
    IF chk THEN exit_json(s, TRUE, "Profile would be renamed")
    ELSE Bind(run_command(s, Cmd("profile rename", p.rename_from, p.name)),
              LAMBDA t : IF t.rc # 0 THEN fail_json(t, "Failed to rename profile")
                         ELSE exit_json(t, TRUE, "Profile renamed"))

\* `force` only selects the message: it is not passed to the command
IncusProfile_delete(s, p, chk) ==
    IF chk THEN exit_json(s, TRUE, "Profile would be deleted")
    ELSE Bind(run_command(s, Cmd("profile delete", p.name, <<>>)),
              LAMBDA t :
                  IF t.rc # 0
                  THEN IF ~p.force /\ t.err = "Error: Profile is currently in use"
                       THEN fail_json(t, "Cannot delete profile: it is in use by instances. Use force=true to override.")
                       ELSE fail_json(t, "Failed to delete profile")
                  ELSE exit_json(t, TRUE, "Profile deleted"))

\* the rename branch falls through to create / update unless it renames or
\* finds the target without the source
IncusProfile_run(s, p, chk) ==
    LET source_profile == IncusProfile_get_profile(s.remote, p.rename_from).found
        target_profile == IncusProfile_get_profile(s.remote, p.name).found
    IN IF p.state = "present"
       THEN IF given(p.rename_from) /\ source_profile /\ ~target_profile
            THEN IncusProfile_rename(s, p, chk)
            ELSE IF given(p.rename_from) /\ ~source_profile /\ target_profile
            THEN fail_json(s, "Source profile for rename not found")
            ELSE IF ~target_profile
            THEN IF chk THEN exit_json(s, TRUE, "Profile would be created")
                 ELSE IncusProfile_create(s, p, chk)
            ELSE IncusProfile_update(s, p, chk, FALSE)
       ELSE IF target_profile THEN IncusProfile_delete(s, p, chk)
            ELSE exit_json(s, FALSE, "Profile not found")

(***************************************************************************)
(* incus_file.  On the controller /etc/motd exists and /nowhere does not;  *)
(* inside a running instance the user and the group www have id 33.        *)
(***************************************************************************)
IncusFile_run(s, p, chk) ==
    LET running == p.name \in DOMAIN s.remote.instances
                   /\ s.remote.instances[p.name].status = "Running"
        \* resolve_id: None, int(name_or_id), or `incus exec -- id -u/-g`
        unresolved(x) == x \notin {NULL, "0", "33"} /\ ~(running /\ x = "www")
        id(x) == IF x = "www" THEN "33" ELSE x
        source_path == IF p.content # NULL THEN "tempfile" ELSE p.src
        source == IF p.content # NULL THEN p.content ELSE "motd"
        push ==
            IF ~given(p.dest) THEN fail_json(s, "'dest' is required for state=pushed")
            ELSE IF p.content # NULL /\ given(p.src)
            THEN fail_json(s, "Parameters 'content' and 'src' are mutually exclusive")
            ELSE IF p.content = NULL /\ ~given(p.src)
            THEN fail_json(s, "Either 'src' or 'content' is required for state=pushed")
            ELSE IF source_path = "/nowhere"
            THEN fail_json(s, "Source file does not exist")
            ELSE IF unresolved(p.owner) THEN fail_json(s, "Failed to resolve user")
            ELSE IF unresolved(p.group) THEN fail_json(s, "Failed to resolve group")
            ELSE IF chk THEN exit_json(s, TRUE, "File would be pushed")
            ELSE Bind(run_command(s, Cmd("file push", p.name,
                                         [path |-> p.dest, content |-> source,
                                          uid |-> id(p.owner), gid |-> id(p.group),
                                          mode |-> p.mode])),
                      LAMBDA t : IF t.rc # 0 THEN fail_json(t, "Failed to push file")
                                 ELSE exit_json(t, TRUE, "File pushed successfully"))
        pull ==
            IF ~given(p.src)
            THEN fail_json(s, "'src' (remote path) is required for state=pulled")
            ELSE IF ~given(p.dest)
            THEN fail_json(s, "'dest' (local path) is required for state=pulled")
            ELSE IF chk THEN exit_json(s, TRUE, "File would be pulled")
            ELSE Bind(run_command(s, Cmd("file pull", p.name, p.src)),
                      LAMBDA t : IF t.rc # 0 THEN fail_json(t, "Failed to pull file")
                                 ELSE exit_json(t, TRUE, "File pulled successfully"))
        \* "not found" in err.lower() or "no such file" in err.lower()
        absent ==
            IF ~given(p.dest)
            THEN fail_json(s, "'dest' (remote path) is required for state=absent")
            ELSE IF chk THEN exit_json(s, TRUE, "File would be deleted")
            ELSE Bind(run_command(s, Cmd("file delete", p.name, p.dest)),
                      LAMBDA t : IF t.rc = 0 THEN exit_json(t, TRUE, "File deleted")
                                 ELSE IF t.err = "Error: Not Found"
                                 THEN exit_json(t, FALSE, "File already absent")
                                 ELSE fail_json(t, "Failed to delete file"))
    IN CASE p.state = "pushed" -> push
         [] p.state = "pulled" -> pull
         [] p.state = "absent" -> absent

(***************************************************************************)
(* incus_image.  A fingerprint is a sequence of hex digits; no alias of    *)
(* the tasks is a prefix of a fingerprint.  On the controller              *)
(* /tmp/alpine.tar is a file.                                              *)
(***************************************************************************)
\* str.startswith
startswith(x, prefix) == Len(prefix) <= Len(x) /\ SubSeq(x, 1, Len(prefix)) = prefix

\* incus image list <alias> --format json: the image that has the alias, or
\* None; also None when the command exits non-zero or prints no JSON
IncusImage_get_image_info(r, identifier) ==
    {[found |-> FALSE]} \cup
    {[found |-> TRUE, fingerprint |-> f, aliases |-> r.images[f].aliases,
      properties |-> r.images[f].properties] : f \in ImageOf(r, identifier)}

IncusImage_manage_properties(s, p, chk, existing) ==
    LET desired == p.properties.items
        current == SelectSeq(<<"os", "release">>, LAMBDA k : k \in DOMAIN existing)
        set(t, key, value) ==
            IF key \in DOMAIN existing /\ existing[key] = str(value) THEN {t}
            ELSE IF chk THEN set_changed(t)
            ELSE Bind(run_command(t, Cmd("image set-property", p.alias, <<key, str(value)>>)),
                      LAMBDA u : IF u.rc # 0 THEN fail_json(u, "Failed to set property")
                                 ELSE set_changed(u))
        unset(t, key) ==
            IF key \in Keys(desired) THEN {t}
            ELSE IF chk THEN set_changed(t)
            ELSE Bind(run_command(t, Cmd("image unset-property", p.alias, key)),
                      LAMBDA u : IF u.rc # 0 THEN fail_json(u, "Failed to unset property")
                                 ELSE set_changed(u))
        S[i \in 0..Len(desired)] ==
            IF i = 0 THEN {s}
            ELSE Bind(S[i - 1], LAMBDA t : set(t, desired[i][1], desired[i][2]))
        U[i \in 0..Len(current)] ==
            IF i = 0 THEN S[Len(desired)]
            ELSE Bind(U[i - 1], LAMBDA t : unset(t, current[i]))
    IN IF p.properties.t = "NoneType" THEN {s} ELSE U[Len(current)]

IncusImage_manage_aliases(s, p, chk, fingerprint, current_names) ==
    LET add(t, alias) ==
            IF alias \in current_names THEN {t}
            ELSE IF chk THEN set_changed(t)
            ELSE UNION {
                   Bind(Bind(IF existing.found /\ existing.fingerprint # fingerprint
                             THEN Bind(run_command(t, Cmd("image alias delete", alias, <<>>)),
                                       LAMBDA u : IF u.rc # 0
                                                  THEN fail_json(u, "Failed to remove existing alias")
                                                  ELSE {u})
                             ELSE {t},
                             LAMBDA u : run_command(u, Cmd("image alias create", alias,
                                                           fingerprint))),
                        LAMBDA u : IF u.rc # 0 THEN fail_json(u, "Failed to create alias")
                                   ELSE set_changed(u)) :
                   existing \in IncusImage_get_image_info(t.remote, alias)}
        A[i \in 0..Len(p.aliases)] ==
            IF i = 0 THEN {s} ELSE Bind(A[i - 1], LAMBDA t : add(t, p.aliases[i]))
    IN A[Len(p.aliases)]

IncusImage_present(s, p, chk) ==
    LET import == p.source = "/tmp/alpine.tar"
        create ==
            IF ~given(p.source) THEN fail_json(s, "Image not found and no 'source' provided")
            ELSE IF chk
            THEN exit_json(s, TRUE, IF import THEN "Image would be imported"
                                    ELSE "Image would be copied")
            ELSE Bind(run_command(s, Cmd(IF import THEN "image import" ELSE "image copy",
                                         p.alias, p.source)),
                      LAMBDA t :
                          IF t.rc # 0 THEN fail_json(t, "Failed to create image")
                          ELSE UNION {
                                 IF new_info.found
                                 THEN Bind(Bind(IncusImage_manage_properties(
                                                    t, p, chk, new_info.properties),
                                                LAMBDA u : IncusImage_manage_aliases(
                                                    u, p, chk, new_info.fingerprint,
                                                    new_info.aliases)),
                                           LAMBDA u : exit_json(u, TRUE, "Image created"))
                                 ELSE exit_json(t, TRUE, "Image created") :
                                 new_info \in IncusImage_get_image_info(t.remote, p.alias)})
        manage(t, info) ==
            Bind(Bind(IncusImage_manage_aliases(t, p, chk, info.fingerprint, info.aliases),
                      LAMBDA u : IncusImage_manage_properties(u, p, chk, info.properties)),
                 LAMBDA u : exit_json(u, u.changed, "Image already exists"))
        update(info) ==
            IF ~p.refresh THEN manage(s, info)
            ELSE IF chk THEN exit_json(s, TRUE, "Image would be refreshed")
            ELSE Bind(run_command(s, Cmd("image refresh", p.alias, <<>>)),
                      LAMBDA t :
                          IF t.rc # 0 THEN fail_json(t, "Failed to refresh image")
                          ELSE UNION {
                                 IF new_info.found /\ new_info.fingerprint # info.fingerprint
                                 THEN Bind(set_changed(t), LAMBDA u : manage(u, new_info))
                                 ELSE manage(t, info) :
                                 new_info \in IncusImage_get_image_info(t.remote, p.alias)})
    IN UNION {IF info.found THEN update(info) ELSE create :
                 info \in IncusImage_get_image_info(s.remote, p.alias)}

IncusImage_run(s, p, chk) ==
    LET absent ==
            UNION {IF ~info.found THEN exit_json(s, FALSE, "Image not found")
                   ELSE IF p.fingerprint # <<>> /\ ~startswith(info.fingerprint, p.fingerprint)
                   THEN fail_json(s, "Image found but fingerprint mismatch")
                   ELSE IF chk THEN exit_json(s, TRUE, "Image would be deleted")
                   ELSE Bind(run_command(s, Cmd("image delete", p.alias, <<>>)),
                             LAMBDA t : IF t.rc # 0 THEN fail_json(t, "Failed to delete image")
                                        ELSE exit_json(t, TRUE, "Image deleted")) :
                   info \in IncusImage_get_image_info(s.remote, p.alias)}
        exported ==
            IF ~given(p.dest) THEN fail_json(s, "'dest' is required for state=exported")
            ELSE IF chk THEN exit_json(s, TRUE, "Image would be exported")
            ELSE Bind(run_command(s, Cmd("image export", p.alias, p.dest)),
                      LAMBDA t : IF t.rc # 0 THEN fail_json(t, "Failed to export image")
                                 ELSE exit_json(t, TRUE, "Image exported"))
        info == exit_json(s, FALSE, "") \cup
                fail_json(s, "Failed to retrieve images information")
    IN IF p.state # "info" /\ ~given(p.alias)
       THEN fail_json(s, "The 'alias' parameter is required")
       ELSE CASE p.state = "present" -> IncusImage_present(s, p, chk)
              [] p.state = "absent" -> absent
              [] p.state = "exported" -> exported
              [] p.state = "info" -> info

(***************************************************************************)
(* incus_storage_volume, state=imported                                    *)
(***************************************************************************)
\* import_volume() never assigns cmd_args, and the module has no global of
\* that name: the first statement that reads it raises NameError.  Only a
\* dry run with neither name nor content_type gets past them, to exit_json;
\* the import command, the attachment and the final exit_json are never
\* reached.
IncusStorageVolume_import_volume(s, p, chk) ==
    IF ~given(p.import_from)
    THEN fail_json(s, "'import_from' is required for state=imported")
    ELSE IF given(p.name)
    THEN raise_exception(s, "NameError: name 'cmd_args' is not defined")
    ELSE IF given(p.content_type)
    THEN raise_exception(s, "NameError: name 'cmd_args' is not defined")
    ELSE IF chk
    THEN exit_json(s, TRUE, "Volume would be imported")
    ELSE raise_exception(s, "NameError: name 'cmd_args' is not defined")

\* run() with state=imported: import_volume() comes before any query
IncusStorageVolume_run(s, p, chk) ==
    CASE p.state = "imported" -> IncusStorageVolume_import_volume(s, p, chk)

(***************************************************************************)
(* incus_network                                                           *)
(***************************************************************************)
\* returns without a command when the description is None or empty, unless
\* forced; in check mode returns before the command
IncusNetwork_update_description(s, p, chk, force) ==
    IF ~given(p.description) /\ ~force THEN {s}
    ELSE IF chk THEN {s}
    ELSE Bind(run_command(s, Cmd("network set --property", p.name, p.description)),
              LAMBDA t : IF t.rc # 0 THEN fail_json(t, "Failed to update description")
                         ELSE {t})

\* update(): `changed` is set after update_description() whatever it did
IncusNetwork_update(s, p, chk, current) ==
    LET str_v(v) == str_lower_if_bool(v)
        to_unset == SelectSeq(p.config, LAMBDA e : e[2].t = "NoneType"
                                                   /\ e[1] \in DOMAIN current.config)
        to_set == SelectSeq(p.config, LAMBDA e : e[2].t # "NoneType"
                                                 /\ get(current.config, e[1], NULL) # str_v(e[2]))
        pairs == [i \in DOMAIN to_set |-> <<to_set[i][1], str_v(to_set[i][2])>>]
        describe(t) ==
            IF p.description # NULL /\ current.description # p.description
            THEN IF chk THEN exit_json(t, TRUE, "Description would be updated")
                 ELSE Bind(IncusNetwork_update_description(t, p, chk, FALSE), set_changed)
            ELSE {t}
        unset_config(t, k) ==
            IF chk THEN exit_json(t, TRUE, "Config would be unset")
            ELSE Bind(Bind(run_command(t, Cmd("network unset", p.name, k)),
                           LAMBDA u : IF u.rc # 0 THEN fail_json(u, "Failed to unset config")
                                      ELSE {u}),
                      set_changed)
        unset[i \in 0..Len(to_unset)] ==
            IF i = 0 THEN describe(s)
            ELSE Bind(unset[i - 1], LAMBDA t : unset_config(t, to_unset[i][1]))
        update_configs(t) ==
            IF to_set = <<>> THEN {t}
            ELSE IF chk THEN exit_json(t, TRUE, "Config items would be updated")
            ELSE Bind(Bind(run_command(t, Cmd("network set", p.name, pairs)),
                           LAMBDA u : IF u.rc # 0 THEN fail_json(u, "Failed to update configs")
                                      ELSE {u}),
                      set_changed)
    IN Bind(Bind(unset[Len(to_unset)], update_configs),
            LAMBDA t : IF ~t.changed THEN exit_json(t, FALSE, "Network matches configuration")
                       ELSE exit_json(t, TRUE, "Network updated"))

IncusNetwork_run(s, p, chk) ==
    LET found == p.name \in DOMAIN s.remote.networks
        given_config ==
            [k \in {k \in Keys(p.config) : Lookup(p.config, k).t # "NoneType"} |->
                str_lower_if_bool(Lookup(p.config, k))]
        create ==
            IF chk THEN exit_json(s, TRUE, "Network would be created")
            ELSE Bind(Bind(run_command(s, Cmd("network create", p.name, given_config)),
                           LAMBDA t : IF t.rc # 0 THEN fail_json(t, "Failed to create network")
                                      ELSE IF given(p.description)
                                      THEN IncusNetwork_update_description(t, p, chk, TRUE)
                                      ELSE {t}),
                      LAMBDA t : exit_json(t, TRUE, "Network created"))
        delete ==
            IF chk THEN exit_json(s, TRUE, "Network would be deleted")
            ELSE Bind(run_command(s, Cmd("network delete", p.name, <<>>)),
                      LAMBDA t :
                          IF t.rc # 0
                          THEN IF ~p.force /\ t.err = "Error: The network is currently in use"
                               THEN fail_json(t, "Cannot delete network: it is in use by instances. Use force=true to override.")
                               ELSE fail_json(t, "Failed to delete network")
                          ELSE exit_json(t, TRUE, "Network deleted"))
    IN IF p.state = "present"
       THEN IF ~found THEN create
            ELSE IncusNetwork_update(s, p, chk, s.remote.networks[p.name])
       ELSE IF found THEN delete
            ELSE exit_json(s, FALSE, "Network already absent")

(***************************************************************************)
(* incus_network_acl and incus_network_zone.  description is a str or      *)
(* None; egress and ingress are lists of rules or None; config is a dict   *)
(* or None.                                                                *)
(***************************************************************************)
IncusNetworkACL_create_or_update(s, p, chk) ==
    LET found == p.name \in DOMAIN s.remote.acls
        current == s.remote.acls[p.name]
        desired ==
            [description |-> IF p.description # NULL THEN p.description
                             ELSE IF found THEN current.description ELSE "",
             egress |-> IF p.egress.t = "list" THEN p.egress.items
                        ELSE IF found THEN current.egress ELSE <<>>,
             ingress |-> IF p.ingress.t = "list" THEN p.ingress.items
                         ELSE IF found THEN current.ingress ELSE <<>>,
             config |-> IF p.config.t = "dict" THEN Stored(p.config.items)
                        ELSE IF found THEN current.config ELSE EmptyMap]
        edit(t) == run_command(t, Cmd("network acl edit", p.name, desired))
    IN IF found
       THEN LET changes_needed ==
                    \/ p.description # NULL /\ current.description # p.description
                    \/ p.egress.t = "list" /\ current.egress # p.egress.items
                    \/ p.ingress.t = "list" /\ current.ingress # p.ingress.items
                    \/ p.config.t = "dict"
                         /\ IncusNetworkForward_config_differs(current.config, p.config.items)
            IN IF ~changes_needed THEN exit_json(s, FALSE, "ACL matches configuration")
               ELSE IF chk THEN exit_json(s, TRUE, "ACL would be updated")
               ELSE Bind(edit(s),
                         LAMBDA t : IF t.rc # 0 THEN fail_json(t, "Failed to update ACL")
                                    ELSE exit_json(t, TRUE, "ACL updated"))
       ELSE IF chk THEN exit_json(s, TRUE, "ACL would be created")
       ELSE Bind(Bind(Bind(run_command(s, Cmd("network acl create", p.name, <<>>)),
                           LAMBDA t : IF t.rc # 0 THEN fail_json(t, "Failed to create ACL")
                                      ELSE {t}),
                      edit),
                 LAMBDA t :
                     IF t.rc # 0
                     THEN delete_created(t, Cmd("network acl delete", p.name, <<>>),
                                         "Failed to configure created ACL")
                     ELSE exit_json(t, TRUE, "ACL created"))

IncusNetworkACL_run(s, p, chk) ==
    LET found == p.name \in DOMAIN s.remote.acls
        delete ==
            IF ~found THEN exit_json(s, FALSE, "ACL already absent")
            ELSE IF chk THEN exit_json(s, TRUE, "ACL would be deleted")
            ELSE Bind(run_command(s, Cmd("network acl delete", p.name, <<>>)),
                      LAMBDA t :
                          IF t.rc # 0
                          THEN IF ~p.force /\ t.err = "Error: The ACL is currently in use"
                               THEN fail_json(t, "Cannot delete ACL: it is referenced by networks. Use force=true to override.")
                               ELSE fail_json(t, "Failed to delete ACL")
                          ELSE exit_json(t, TRUE, "ACL deleted"))
    IN IF p.state = "present" THEN IncusNetworkACL_create_or_update(s, p, chk) ELSE delete

IncusNetworkZone_create_or_update(s, p, chk) ==
    LET found == p.name \in DOMAIN s.remote.zones
        current == s.remote.zones[p.name]
        desired ==
            [description |-> IF p.description # NULL THEN p.description
                             ELSE IF found THEN current.description ELSE "",
             config |-> IF p.config.t = "dict" THEN Stored(p.config.items)
                        ELSE IF found THEN current.config ELSE EmptyMap]
        edit(t) == run_command(t, Cmd("network zone edit", p.name, desired))
    IN IF found
       THEN LET changes_needed ==
                    \/ p.description # NULL /\ current.description # p.description
                    \/ p.config.t = "dict"
                         /\ IncusNetworkForward_config_differs(current.config, p.config.items)
            IN IF ~changes_needed
               THEN exit_json(s, FALSE, "Network zone matches configuration")
               ELSE IF chk THEN exit_json(s, TRUE, "Network zone would be updated")
               ELSE Bind(edit(s),
                         LAMBDA t : IF t.rc # 0
                                    THEN fail_json(t, "Failed to update network zone")
                                    ELSE exit_json(t, TRUE, "Network zone updated"))
       ELSE IF chk THEN exit_json(s, TRUE, "Network zone would be created")
       ELSE Bind(Bind(Bind(run_command(s, Cmd("network zone create", p.name, <<>>)),
                           LAMBDA t : IF t.rc # 0
                                      THEN fail_json(t, "Failed to create network zone")
                                      ELSE {t}),
                      edit),
                 LAMBDA t :
                     IF t.rc # 0
                     THEN delete_created(t, Cmd("network zone delete", p.name, <<>>),
                                         "Failed to configure created network zone")
                     ELSE exit_json(t, TRUE, "Network zone created"))

IncusNetworkZone_run(s, p, chk) ==
    LET found == p.name \in DOMAIN s.remote.zones
        delete ==
            IF ~found THEN exit_json(s, FALSE, "Network zone already absent")
            ELSE IF chk THEN exit_json(s, TRUE, "Network zone would be deleted")
            ELSE Bind(run_command(s, Cmd("network zone delete", p.name, <<>>)),
                      LAMBDA t : IF t.rc # 0
                                 THEN fail_json(t, "Failed to delete network zone")
                                 ELSE exit_json(t, TRUE, "Network zone deleted"))
    IN IF p.state = "present" THEN IncusNetworkZone_create_or_update(s, p, chk) ELSE delete

(***************************************************************************)
(* incus_copy                                                              *)
(***************************************************************************)
\* an instance the module never sees
IncusCopy_instance_exists_never(r, name) == FALSE
\* incus list --format=json ^name$ returned a non-empty list; False when the
\* query exits non-zero or its output is not JSON
IncusCopy_instance_exists(r, name) ==
    r.list = "ok" /\ name \in DOMAIN r.instances

IncusCopy_run(s, p, chk) ==
    LET source_exists == IncusCopy_instance_exists(s.remote, p.source)
        dest_exists == IncusCopy_instance_exists(s.remote, p.dest)
        \* _run_command(cmd): check_rc=True
        command(verb) ==
            Bind(run_command(s, Cmd(verb, p.source, p.dest)),
                 LAMBDA t : IF t.rc # 0 THEN fail_json(t, "Command execution failed") ELSE {t})
    IN IF p.move
       THEN IF ~source_exists /\ dest_exists
            THEN exit_json(s, FALSE, "Instance already moved")
            ELSE IF ~source_exists /\ ~dest_exists
            THEN fail_json(s, "Source instance not found")
            ELSE IF dest_exists
            THEN fail_json(s, "Cannot move: destination already exists")
            ELSE IF chk THEN exit_json(s, TRUE, "Instance would be moved")
            ELSE Bind(command("move"), LAMBDA t : exit_json(t, TRUE, "Instance moved"))
       ELSE IF dest_exists
            THEN exit_json(s, FALSE, "Destination instance already exists")
            ELSE IF ~source_exists
            THEN fail_json(s, "Source instance not found")
            ELSE IF chk THEN exit_json(s, TRUE, "Instance would be copied")
            ELSE Bind(command("copy"), LAMBDA t : exit_json(t, TRUE, "Instance copied"))

(***************************************************************************)
(* incus_export                                                            *)
(***************************************************************************)
\* os.remove(path): the file is gone, or OSError is raised and it stays
os_remove(s, path) ==
    {[s EXCEPT !.remote.local = Drop(@, path), !.rc = 0, !.err = ""],
     [s EXCEPT !.rc = 1, !.err = "OSError"]}

\* path is a regular file or does not exist (os.path.isdir is false)
IncusExport_run(s, p, chk) ==
    LET export(t) ==
            IF chk THEN exit_json(t, TRUE, "Export would be performed")
            ELSE Bind(run_command(t, Cmd("export", p.instance, p.path)),
                      LAMBDA u : IF u.rc # 0 THEN fail_json(u, "Failed to export instance")
                                 ELSE exit_json(u, TRUE, "Export successful"))
    IN IF p.path \in DOMAIN s.remote.local
       THEN IF ~p.force THEN exit_json(s, FALSE, "File already exists")
            ELSE IF ~chk
            THEN Bind(Bind(os_remove(s, p.path),
                           LAMBDA t : IF t.err = "OSError"
                                      THEN fail_json(t, "Failed to remove existing file")
                                      ELSE {t}),
                      export)
            ELSE export(s)
       ELSE export(s)

(***************************************************************************)
(* Tasks.  A task is a module with its parameters and the server state it  *)
(* is first run against.  The host runs it in check mode from that state,  *)
(* then live from the same state, then live again on what the server has   *)
(* become.                                                                 *)
(***************************************************************************)
ConfigKeys == {"limits.cpu", "limits.memory"}
ConfigVals == {PyStr("2"), PyStr("4"), PyInt("4"), PyNone}
StoredVals == {"2", "4"}
DevNames == {"eth0", "root"}
DevConfs == {<<<<"type", PyStr("nic")>>, <<"mtu", PyInt("1400")>>>>,
             <<<<"mtu", PyStr("1400")>>>>,
             <<<<"type", PyStr("disk")>>>>}
StoredDevs == {[type |-> "nic", mtu |-> "1500"], [type |-> "nic", mtu |-> "1400"]}
ProfileNames == {"default", "web"}
ProfileLists == {<<>>} \cup {<<a>> : a \in ProfileNames}
                       \cup {<<a, b>> : a \in ProfileNames, b \in ProfileNames}

Instance(status, config, devices, profiles) ==
    [status |-> status, config |-> config, devices |-> devices, profiles |-> profiles]
PlainInstance(status) == Instance(status, EmptyMap, EmptyMap, <<"default">>)
InstanceRemote(I) == [NoRemote EXCEPT !.instances = I]
Only(n, inst) == [x \in {n} |-> inst]

\* module.params of incus_instance with the argument_spec defaults
InstanceDefaults ==
    [name |-> "web", rename_from |-> NULL, remote_image |-> "images:debian/12",
     empty |-> FALSE, started |-> FALSE, state |-> "present", force |-> FALSE,
     config |-> <<>>, devices |-> <<>>, profiles |-> PyNone]

\* config reconciliation on an existing instance
InstanceConfigTasks ==
    {<<[InstanceDefaults EXCEPT !.config = c, !.started = st],
       InstanceRemote(Only("web", Instance(status, cur, EmptyMap, <<"default">>)))>> :
        c \in Dicts(ConfigKeys, ConfigVals), st \in BOOLEAN,
        status \in {"Stopped", "Running"}, cur \in Maps(ConfigKeys, StoredVals)}

\* device reconciliation, on an existing and on a new instance
InstanceDeviceTasks ==
    {<<[InstanceDefaults EXCEPT !.devices = d, !.config = c], InstanceRemote(I)>> :
        d \in Dicts(DevNames, DevConfs),
        c \in {<<>>, <<<<"limits.cpu", PyInt("4")>>>>},
        I \in {EmptyMap} \cup
              {Only("web", Instance(status, EmptyMap, cur, <<"default">>)) :
                  status \in {"Stopped", "Running"}, cur \in Maps(DevNames, StoredDevs)}}

\* profile lists on an existing instance
InstanceProfileTasks ==
    {<<[InstanceDefaults EXCEPT !.profiles = pl, !.started = st],
       InstanceRemote(Only("web", Instance(status, EmptyMap, EmptyMap, cur)))>> :
        pl \in {PyNone} \cup {PyList(q) : q \in ProfileLists}, st \in BOOLEAN,
        status \in {"Stopped", "Running"}, cur \in ProfileLists}

InstanceWorlds ==
    {[n \in D |-> PlainInstance(IF n = "web" THEN status ELSE "Stopped")] :
        D \in SUBSET {"web", "old"}, status \in {"Stopped", "Running", "Frozen"}}

\* creation, rename, deletion and the power states
InstanceLifecycleTasks ==
    {<<[InstanceDefaults EXCEPT !.rename_from = rf, !.remote_image = img, !.empty = e,
                                !.started = st, !.config = c], InstanceRemote(I)>> :
        rf \in {NULL, "old"}, img \in {NULL, "images:debian/12"}, e \in BOOLEAN,
        st \in BOOLEAN, c \in {<<>>, <<<<"limits.cpu", PyInt("4")>>>>},
        I \in InstanceWorlds}
    \cup
    {<<[InstanceDefaults EXCEPT !.state = state, !.force = f], InstanceRemote(I)>> :
        state \in {"absent", "restarted", "frozen", "unfrozen", "rebuilt"},
        f \in BOOLEAN, I \in InstanceWorlds}

\* the lifecycle tasks, with every behaviour of the existence query
LenientTasks ==
    {<<task[1], [task[2] EXCEPT !.list = q]>> :
        task \in InstanceLifecycleTasks, q \in {"ok", "exit 1", "undecodable"}}

InstanceTasks ==
    InstanceConfigTasks \cup InstanceDeviceTasks \cup InstanceProfileTasks
        \cup InstanceLifecycleTasks

\* module.params of incus_config with the argument_spec defaults
ConfigDefaults ==
    [instance_name |-> "web", state |-> "present", config |-> PyNone, devices |-> PyNone]
NameLists(K) == UNION {[1..n -> K] : n \in 0..MaxDictLen}

ConfigTasks ==
    {<<[ConfigDefaults EXCEPT !.state = state, !.config = c], InstanceRemote(I)>> :
        state \in {"present", "absent"},
        c \in {PyNone} \cup {PyDict(d) : d \in Dicts(ConfigKeys, ConfigVals)}
                       \cup {PyList(q) : q \in NameLists(ConfigKeys)},
        I \in {EmptyMap} \cup
              {Only("web", Instance("Running", cur, Only("root", [type |-> "disk"]),
                                    <<"default">>)) : cur \in Maps(ConfigKeys, StoredVals)}}
    \cup
    {<<[ConfigDefaults EXCEPT !.state = state, !.devices = d, !.config = c],
       InstanceRemote(Only("web", Instance("Running", Only("limits.cpu", "2"), cur,
                                           <<"default">>)))>> :
        state \in {"present", "absent"},
        d \in {PyDict(x) : x \in Dicts(DevNames, DevConfs)}
                  \cup {PyList(q) : q \in NameLists(DevNames)},
        c \in {PyNone, PyDict(<<<<"limits.cpu", PyInt("4")>>>>)},
        cur \in Maps(DevNames, StoredDevs)}

\* module.params of incus_storage with the argument_spec defaults
StorageDefaults ==
    [name |-> "pool1", driver |-> NULL, config |-> <<>>, description |-> NULL,
     state |-> "present", force |-> FALSE]
PoolKeys == {"size", "source"}
PoolVals == {PyStr("10GiB"), PyInt("10"), PyStr("/srv/pool1")}
StoredPoolVals == {"10GiB", "10"}
Pool(description, config, used) ==
    [driver |-> "dir", description |-> description, config |-> config, used |-> used]
StorageRemote(P) == [NoRemote EXCEPT !.pools = P]
StorageWorlds ==
    {EmptyMap} \cup {Only("pool1", Pool(d, cur, u)) :
                        d \in {"", "fast"}, cur \in Maps(PoolKeys, StoredPoolVals),
                        u \in BOOLEAN}

StorageTasks ==
    {<<[StorageDefaults EXCEPT !.driver = drv, !.description = d, !.config = c],
       StorageRemote(P)>> :
        drv \in {NULL, "dir"}, d \in {NULL, "fast"}, c \in Dicts(PoolKeys, PoolVals),
        P \in StorageWorlds}
    \cup
    {<<[StorageDefaults EXCEPT !.state = "absent", !.force = f], StorageRemote(P)>> :
        f \in BOOLEAN, P \in StorageWorlds}

\* module.params of incus_snapshot with the argument_spec defaults
SnapshotDefaults ==
    [instance |-> "web", snapshot_name |-> NULL, state |-> "present", new_name |-> NULL,
     expires |-> NULL, reuse |-> FALSE, stateful |-> FALSE,
     cron |-> NULL, cron_stopped |-> PyNone, pattern |-> NULL, expiry |-> NULL]
SnapNames == {"snap0", "snap1"}
Snapshot == [stateful |-> FALSE, config |-> EmptyMap]
SnapshotWorlds ==
    {[NoRemote EXCEPT !.instances = I, !.snapshots = [k \in {"web"} \X D |-> Snapshot]] :
        I \in {Only("web", PlainInstance("Running"))}, D \in SUBSET SnapNames}
    \cup {NoRemote}

SnapshotTasks ==
    {<<[SnapshotDefaults EXCEPT !.snapshot_name = "snap0", !.expires = e, !.reuse = ru,
                                !.stateful = sf], W>> :
        e \in {NULL, "30d"}, ru \in BOOLEAN, sf \in BOOLEAN, W \in SnapshotWorlds}
    \cup
    {<<[SnapshotDefaults EXCEPT !.cron = c, !.cron_stopped = cs, !.pattern = pt,
                                !.expiry = e], W>> :
        c \in {NULL, "@daily"}, cs \in {PyNone, PyTrue}, pt \in {NULL, "snap%d"},
        e \in {NULL, "30d"}, W \in SnapshotWorlds}
    \cup
    {<<[SnapshotDefaults EXCEPT !.snapshot_name = "snap0", !.state = state,
                                !.new_name = nn, !.stateful = sf], W>> :
        state \in {"absent", "restored", "renamed"}, nn \in {NULL, "snap1"},
        sf \in BOOLEAN, W \in SnapshotWorlds}

\* module.params of incus_network_forward with the argument_spec defaults
ForwardDefaults ==
    [network |-> "incusbr0", listen_address |-> "192.168.1.50", state |-> "present",
     description |-> NULL, config |-> PyNone, ports |-> PyNone]
\* ports a task may list
MaxPorts == 2
Lists(S) == UNION {[1..n -> S] : n \in 0..MaxPorts}
TaskPorts ==
    {[protocol |-> pr, listen_port |-> lp, target_address |-> "10.0.0.10",
      target_port |-> tp, description |-> NULL] :
        pr \in {"tcp", "udp"}, lp \in Range(PortOrder), tp \in {NULL, "80"}}
StoredPorts ==
    {[protocol |-> "tcp", listen_port |-> lp, target_address |-> "10.0.0.10"] :
        lp \in Range(PortOrder)}
    \cup {[protocol |-> "tcp", listen_port |-> "443", target_address |-> "10.0.0.10",
           target_port |-> "80"],
          [protocol |-> "udp", listen_port |-> "443", target_address |-> "10.0.0.10"]}
ForwardConfigs ==
    {PyNone, PyDict(<<>>), PyDict(<<<<"target_address", PyStr("10.0.0.10")>>>>)}
ForwardWorlds ==
    {NoRemote} \cup
    {[NoRemote EXCEPT !.forwards =
          Only(<<"incusbr0", "192.168.1.50">>,
               [description |-> d, config |-> c, ports |-> ps])] :
        d \in {"", "web"}, c \in {EmptyMap, Only("target_address", "10.0.0.10")},
        ps \in Lists(StoredPorts)}

ForwardTasks ==
    {<<[ForwardDefaults EXCEPT !.description = d, !.config = c, !.ports = ps], W>> :
        d \in {NULL, "web"}, c \in ForwardConfigs,
        ps \in {PyNone} \cup {PyList(q) : q \in Lists(TaskPorts)},
        W \in {w \in ForwardWorlds :
                 \A k \in DOMAIN w.forwards : w.forwards[k].description = ""}}
    \cup
    {<<[ForwardDefaults EXCEPT !.description = d], W>> :
        d \in {NULL, "web"}, W \in ForwardWorlds}
    \cup
    {<<[ForwardDefaults EXCEPT !.state = "absent"], W>> : W \in ForwardWorlds}

\* module.params of incus_profile with the argument_spec defaults; on the
\* server the profiles `old` and `base`, each there or not, and possibly an
\* instance that uses base
ProfileTasks ==
    LET Defaults == [name |-> "base", state |-> "present", rename_from |-> NULL,
                     description |-> NULL, config |-> PyNone, devices |-> PyNone,
                     force |-> FALSE]
        Recs == {[description |-> d, config |-> c, devices |-> EmptyMap] :
                    d \in {"", "web"}, c \in Maps({"limits.cpu"}, {"2", "4"})}
        Users == {EmptyMap, Only("web", Instance("Running", EmptyMap, EmptyMap, <<"base">>))}
        Worlds == {W \in {[NoRemote EXCEPT !.profiles = P, !.instances = I] :
                             P \in UNION {[D -> Recs] : D \in SUBSET {"old", "base"}},
                             I \in Users} :
                      W.instances = EmptyMap \/ "base" \in DOMAIN W.profiles}
    IN {<<[Defaults EXCEPT !.rename_from = rf, !.description = d, !.config = c,
                           !.devices = dv], W>> :
           rf \in {NULL, "old"}, d \in {NULL, "web"},
           c \in {PyNone, PyDict(<<<<"limits.cpu", PyInt("4")>>>>),
                  PyDict(<<<<"limits.cpu", PyNone>>>>)},
           dv \in {PyNone, PyDict(<<<<"eth0", [type |-> "nic"]>>>>)},
           W \in Worlds}
       \cup
       {<<[Defaults EXCEPT !.state = "absent", !.force = f], W>> :
           f \in BOOLEAN, W \in Worlds}

\* module.params of incus_file with the argument_spec defaults; instance web
\* is running or missing, and /etc/motd is in it or not
FileTasks ==
    LET Defaults == [name |-> "web", state |-> "pushed", src |-> NULL, dest |-> NULL,
                     content |-> NULL, owner |-> NULL, group |-> NULL, mode |-> NULL]
        File(c) == [content |-> c, uid |-> NULL, gid |-> NULL, mode |-> NULL]
        Worlds == {NoRemote, InstanceRemote(Only("web", PlainInstance("Running")))}
                  \cup {[InstanceRemote(Only("web", PlainInstance("Running")))
                            EXCEPT !.files = [k \in {<<"web", "/etc/motd">>} |-> File(c)]] :
                           c \in {"motd", "hello"}}
    IN {<<[Defaults EXCEPT !.state = st, !.src = src, !.dest = dest, !.content = c,
                           !.owner = o, !.group = g], W>> :
           st \in {"pushed", "pulled", "absent"}, src \in {NULL, "/etc/motd", "/nowhere"},
           dest \in {NULL, "/etc/motd"}, c \in {NULL, "hello"},
           o \in {NULL, "0", "www", "ghost"}, g \in {NULL, "www"}, W \in Worlds}

\* module.params of incus_image with the argument_spec defaults; the server
\* has image a1 under the alias alpine or not, up to date or not, and
\* possibly image b7 under the alias edge
ImageTasks ==
    LET Defaults == [alias |-> "alpine", fingerprint |-> <<>>, state |-> "present",
                     source |-> NULL, dest |-> NULL, properties |-> PyNone,
                     aliases |-> <<>>, refresh |-> FALSE]
        Image(a, props, stale) == [aliases |-> a, properties |-> props, stale |-> stale]
        Edge == [f \in {<<"b", "7">>} |-> Image({"edge"}, EmptyMap, FALSE)]
        Worlds == {[NoRemote EXCEPT !.images = I] :
                      I \in {EmptyMap, Edge} \cup
                            UNION {{[f \in {<<"a", "1">>} |-> Image({"alpine"}, props, st)],
                                    [f \in {<<"a", "1">>, <<"b", "7">>} |->
                                        IF f = <<"a", "1">> THEN Image({"alpine"}, props, st)
                                        ELSE Edge[f]]} :
                                      props \in Maps({"os", "release"}, {"alpine"}),
                                      st \in BOOLEAN}}
    IN {<<[Defaults EXCEPT !.fingerprint = fp, !.source = src, !.properties = props,
                           !.aliases = al, !.refresh = rf], W>> :
           fp \in {<<>>, <<"a">>, <<"b">>},
           src \in {NULL, "images:alpine/edge", "/tmp/alpine.tar"},
           props \in {PyNone, PyDict(<<>>), PyDict(<<<<"os", PyStr("alpine")>>>>),
                      PyDict(<<<<"os", PyStr("debian")>>, <<"release", PyInt("3")>>>>)},
           al \in {<<>>, <<"edge">>}, rf \in BOOLEAN, W \in Worlds}
       \cup
       {<<[Defaults EXCEPT !.state = st, !.fingerprint = fp, !.dest = d, !.alias = a], W>> :
           st \in {"absent", "exported", "info"}, fp \in {<<>>, <<"a">>, <<"b">>},
           d \in {NULL, "/tmp/out.tar"}, a \in {NULL, "alpine"}, W \in Worlds}

\* module.params of incus_storage_volume with the argument_spec defaults
VolumeTasks ==
    {<<[pool |-> "pool1", name |-> n, type |-> "filesystem", content_type |-> ct,
        config |-> <<>>, description |-> NULL, state |-> "imported",
        import_from |-> src, attach_to |-> at], StorageRemote(P)>> :
        n \in {NULL, "vol1"}, ct \in {NULL, "filesystem", "block", "iso"},
        src \in {NULL, "/tmp/vol1.tar"}, at \in {NULL, "web"}, P \in StorageWorlds}

\* module.params of incus_network; on the server the network net1, or none
NetworkTasks ==
    LET Keys_ == {"ipv4.nat", "dns.domain"}
        Worlds == {NoRemote} \cup
                  {[NoRemote EXCEPT !.networks =
                        Only("net1", [description |-> d, config |-> c, used |-> u])] :
                      d \in {"", "lan"}, c \in Maps(Keys_, {"true", "lan"}), u \in BOOLEAN}
    IN {<<[name |-> "net1", state |-> st, description |-> d, config |-> c, force |-> f], W>> :
           st \in {"present", "absent"}, d \in {NULL, "", "lan"},
           c \in Dicts(Keys_, {PyStr("lan"), PyTrue, PyNone}), f \in BOOLEAN, W \in Worlds}

\* module.params of incus_network_acl; on the server the ACL web, or none
AclTasks ==
    LET Rules == {<<>>, <<"allow tcp 443">>}
        Configs == {PyNone, PyDict(<<<<"user.owner", PyStr("ops")>>>>)}
        Worlds == {NoRemote} \cup
                  {[NoRemote EXCEPT !.acls =
                        Only("web", [description |-> d, egress |-> e, ingress |-> <<>>,
                                     config |-> c, used |-> u])] :
                      d \in {"", "front"}, e \in Rules,
                      c \in {EmptyMap, Only("user.owner", "ops")}, u \in BOOLEAN}
    IN {<<[name |-> "web", state |-> st, description |-> d, egress |-> e, ingress |-> i,
           config |-> c, force |-> f], W>> :
           st \in {"present", "absent"}, d \in {NULL, "front"},
           e \in {PyNone} \cup {PyList(q) : q \in Rules}, i \in {PyNone, PyList(<<>>)},
           c \in Configs, f \in BOOLEAN, W \in Worlds}

\* module.params of incus_network_zone; on the server the zone example.net,
\* or none
ZoneTasks ==
    LET Configs == {PyNone, PyDict(<<>>), PyDict(<<<<"dns.nameservers", PyStr("ns1")>>>>)}
        Worlds == {NoRemote} \cup
                  {[NoRemote EXCEPT !.zones =
                        Only("example.net", [description |-> d, config |-> c, used |-> FALSE])] :
                      d \in {"", "front"}, c \in {EmptyMap, Only("dns.nameservers", "ns1")}}
    IN {<<[name |-> "example.net", state |-> st, description |-> d, config |-> c], W>> :
           st \in {"present", "absent"}, d \in {NULL, "", "front"}, c \in Configs,
           W \in Worlds}

\* module.params of incus_copy; on the server the instances web and old, each
\* there or not
CopyTasks ==
    {<<[source |-> "web", dest |-> "old", move |-> mv, instance_only |-> io,
        storage |-> st, ephemeral |-> e], InstanceRemote(I)>> :
        mv \in BOOLEAN, io \in BOOLEAN, st \in {NULL, "pool1"}, e \in BOOLEAN,
        I \in InstanceWorlds}

\* module.params of incus_export; on the host a file at path, or none, and on
\* the server the instance web, or none
ExportTasks ==
    {<<[instance |-> "web", path |-> "/backups/web.tar.gz", compression |-> cp,
        optimized |-> opt, instance_only |-> io, force |-> f],
       [NoRemote EXCEPT !.instances = I, !.local = L]>> :
        cp \in {NULL, "gzip"}, opt \in BOOLEAN, io \in BOOLEAN, f \in BOOLEAN,
        I \in {EmptyMap, Only("web", PlainInstance("Running"))},
        L \in {EmptyMap, Only("/backups/web.tar.gz", "backup of last week")}}

StartTask(m, task) ==
    /\ mod = m
    /\ params = task[1]
    /\ remote = task[2]
    /\ remote0 = task[2]
    /\ check = TRUE
    /\ cmds = <<>>
    /\ result = NoResult
    /\ pc = "ready"
    /\ runNo = 1
    /\ hist = <<>>

\* the run of a module's handler, from its first fetch to exit_json / fail_json
Run(outcomes) ==
    /\ pc = "ready"
    /\ \E o \in outcomes :
          /\ o.done
          /\ remote' = o.remote
          /\ cmds' = o.cmds
          /\ result' = o.result
          /\ hist' = Append(hist, [check |-> check, before |-> remote, after |-> o.remote,
                                   cmds |-> o.cmds, result |-> o.result])
    /\ pc' = "done"
    /\ UNCHANGED <<mod, params, check, runNo, remote0>>

\* the host runs the task again: live, the first time from the state the dry
\* run was given
NextRun ==
    /\ pc = "done"
    /\ runNo < 1 + MaxLiveRuns
    /\ runNo' = runNo + 1
    /\ check' = FALSE
    /\ remote' = IF runNo = 1 THEN remote0 ELSE remote
    /\ cmds' = <<>>
    /\ result' = NoResult
    /\ pc' = "ready"
    /\ UNCHANGED <<mod, params, hist, remote0>>

RunInstance ==
    /\ mod = "incus_instance"
    /\ Run(IncusInstance_run(Begin(remote), params, check))

RunConfig ==
    /\ mod = "incus_config"
    /\ Run(IncusConfig_run(Begin(remote), params, check))

RunFile ==
    /\ mod = "incus_file"
    /\ Run(IncusFile_run(Begin(remote), params, check))

InitInstance ==
    \/ \E task \in InstanceTasks : StartTask("incus_instance", task)
    \/ \E task \in ConfigTasks : StartTask("incus_config", task)
    \/ \E task \in FileTasks : StartTask("incus_file", task)
NextInstance == RunInstance \/ RunConfig \/ RunFile \/ NextRun
SpecInstance == InitInstance /\ [][NextInstance]_vars

InitLenient == \E task \in LenientTasks : StartTask("incus_instance", task)
NextLenient == RunInstance \/ NextRun
SpecLenient == InitLenient /\ [][NextLenient]_vars

RunStorage ==
    /\ mod = "incus_storage"
    /\ Run(IncusStorage_run(Begin(remote), params, check))

RunVolume ==
    /\ mod = "incus_storage_volume"
    /\ Run(IncusStorageVolume_run(Begin(remote), params, check))

InitStorage ==
    \/ \E task \in StorageTasks : StartTask("incus_storage", task)
    \/ \E task \in VolumeTasks : StartTask("incus_storage_volume", task)
NextStorage == RunStorage \/ RunVolume \/ NextRun
SpecStorage == InitStorage /\ [][NextStorage]_vars

RunSnapshot ==
    /\ mod = "incus_snapshot"
    /\ Run(IncusSnapshot_run(Begin(remote), params, check))

InitSnapshot == \E task \in SnapshotTasks : StartTask("incus_snapshot", task)
NextSnapshot == RunSnapshot \/ NextRun
SpecSnapshot == InitSnapshot /\ [][NextSnapshot]_vars

RunForward ==
    /\ mod = "incus_network_forward"
    /\ Run(IncusNetworkForward_run(Begin(remote), params, check))

RunAcl ==
    /\ mod = "incus_network_acl"
    /\ Run(IncusNetworkACL_run(Begin(remote), params, check))

RunZone ==
    /\ mod = "incus_network_zone"
    /\ Run(IncusNetworkZone_run(Begin(remote), params, check))

InitForward ==
    \/ \E task \in ForwardTasks : StartTask("incus_network_forward", task)
    \/ \E task \in AclTasks : StartTask("incus_network_acl", task)
    \/ \E task \in ZoneTasks : StartTask("incus_network_zone", task)
NextForward == RunForward \/ RunAcl \/ RunZone \/ NextRun
SpecForward == InitForward /\ [][NextForward]_vars

RunProfile ==
    /\ mod = "incus_profile"
    /\ Run(IncusProfile_run(Begin(remote), params, check))

InitProfile == \E task \in ProfileTasks : StartTask("incus_profile", task)
NextProfile == RunProfile \/ NextRun
SpecProfile == InitProfile /\ [][NextProfile]_vars

RunImage ==
    /\ mod = "incus_image"
    /\ Run(IncusImage_run(Begin(remote), params, check))

InitImage == \E task \in ImageTasks : StartTask("incus_image", task)
NextImage == RunImage \/ NextRun
SpecImage == InitImage /\ [][NextImage]_vars

(***************************************************************************)
(* Two hosts reconcile the same storage pool at the same time.  Each is a  *)
(* process of its own: get_pool_info() is one child process and what run() *)
(* does with its answer comes later, so the other host's commands can fall *)
(* between the two.  Here pc, hist, cmds and result are indexed by the     *)
(* reconciler: hist[i] is the current_info reconciler i fetched.           *)
(***************************************************************************)
Reconcilers == {1, 2}

InitRace ==
    \E task \in StorageTasks :
        /\ mod = "incus_storage"
        /\ params = task[1]
        /\ remote = task[2]
        /\ remote0 = task[2]
        /\ check = FALSE
        /\ cmds = [i \in Reconcilers |-> <<>>]
        /\ result = [i \in Reconcilers |-> NoResult]
        /\ pc = [i \in Reconcilers |-> "fetch"]
        /\ hist = [i \in Reconcilers |-> [found |-> FALSE]]
        /\ runNo = 0

\* current_info = self.get_pool_info()
RaceFetch(i) ==
    /\ pc[i] = "fetch"
    /\ hist' = [hist EXCEPT ![i] = IncusStorage_get_pool_info(remote, params.name)]
    /\ pc' = [pc EXCEPT ![i] = "act"]
    /\ UNCHANGED <<mod, params, check, remote, cmds, result, runNo, remote0>>

\* the rest of run(), on the current_info fetched earlier
RaceAct(i) ==
    /\ pc[i] = "act"
    /\ \E o \in IncusStorage_run_after_fetch(Begin(remote), params, check, hist[i]) :
          /\ o.done
          /\ remote' = o.remote
          /\ cmds' = [cmds EXCEPT ![i] = o.cmds]
          /\ result' = [result EXCEPT ![i] = o.result]
    /\ pc' = [pc EXCEPT ![i] = "done"]
    /\ UNCHANGED <<mod, params, check, hist, runNo, remote0>>

NextRace == \E i \in Reconcilers : RaceFetch(i) \/ RaceAct(i)
SpecRace == InitRace /\ [][NextRace]_vars

RunNetwork ==
    /\ mod = "incus_network"
    /\ Run(IncusNetwork_run(Begin(remote), params, check))

InitNetwork == \E task \in NetworkTasks : StartTask("incus_network", task)
NextNetwork == RunNetwork \/ NextRun
SpecNetwork == InitNetwork /\ [][NextNetwork]_vars

(***************************************************************************)
(* Two hosts run state=present on the same network forward at the same     *)
(* time.  Every child process of create_or_update() is a step of its own:  *)
(* the query, the create, the edit and the delete that follows a failed    *)
(* edit, so the other host's commands can fall between any two of them.    *)
(* params, pc, hist, cmds and result are indexed by the host; hist[i] is   *)
(* the `current` host i fetched.                                           *)
(***************************************************************************)
ForwardRaceTasks ==
    {[ForwardDefaults EXCEPT !.description = d, !.ports = ps] :
        d \in {NULL, "web"},
        ps \in {PyNone, PyList(<<[protocol |-> "tcp", listen_port |-> "443",
                                  target_address |-> "10.0.0.10", target_port |-> NULL,
                                  description |-> NULL]>>)}}

InitForwardRace ==
    /\ mod = "incus_network_forward"
    /\ params \in [Reconcilers -> ForwardRaceTasks]
    /\ remote \in {w \in ForwardWorlds : \A k \in DOMAIN w.forwards : w.forwards[k].ports = <<>>}
    /\ remote0 = remote
    /\ check = FALSE
    /\ cmds = [i \in Reconcilers |-> <<>>]
    /\ result = [i \in Reconcilers |-> NoResult]
    /\ pc = [i \in Reconcilers |-> "fetch"]
    /\ hist = [i \in Reconcilers |-> [found |-> FALSE]]
    /\ runNo = 0

\* one child process of host i, and where the host goes on its exit code
ForwardRaceCommand(i, c, on_success, on_failure) ==
    \E o \in run_command(Begin(remote), c) :
        /\ remote' = o.remote
        /\ cmds' = [cmds EXCEPT ![i] = @ \o o.cmds]
        /\ LET next == IF o.rc = 0 THEN on_success ELSE on_failure
           IN /\ pc' = [pc EXCEPT ![i] = IF next.t = "goto" THEN next.v ELSE "done"]
              /\ result' = [result EXCEPT ![i] =
                               IF next.t = "goto" THEN @
                               ELSE [status |-> next.t, changed |-> next.t = "ok",
                                     msg |-> next.v]]
    /\ UNCHANGED <<mod, params, check, hist, runNo, remote0>>

\* current = self.get_forward(), and the branch create_or_update() takes on it
ForwardRaceFetch(i) ==
    /\ pc[i] = "fetch"
    /\ LET current == IncusNetworkForward_get_forward(remote, params[i])
       IN /\ hist' = [hist EXCEPT ![i] = current]
          /\ IF ~current.found
             THEN pc' = [pc EXCEPT ![i] = "create"] /\ UNCHANGED result
             ELSE IF IncusNetworkForward_changes_needed(params[i], current.info)
             THEN pc' = [pc EXCEPT ![i] = "update"] /\ UNCHANGED result
             ELSE /\ pc' = [pc EXCEPT ![i] = "done"]
                  /\ result' = [result EXCEPT ![i] =
                                   [status |-> "ok", changed |-> FALSE,
                                    msg |-> "Network forward matches configuration"]]
    /\ UNCHANGED <<mod, params, check, remote, cmds, runNo, remote0>>

\* incus network forward create
ForwardRaceCreate(i) ==
    /\ pc[i] = "create"
    /\ ForwardRaceCommand(i, Cmd("network forward create",
                                 <<params[i].network, params[i].listen_address>>, <<>>),
                          [t |-> "goto", v |-> "edit"],
                          [t |-> "failed", v |-> "Failed to create network forward"])

\* incus network forward edit, of an existing forward or of the created one
ForwardRaceEdit(i) ==
    /\ pc[i] \in {"update", "edit"}
    /\ ForwardRaceCommand(i, Cmd("network forward edit",
                                 <<params[i].network, params[i].listen_address>>,
                                 IncusNetworkForward_desired(params[i], hist[i])),
                          [t |-> "ok", v |-> IF pc[i] = "update" THEN "Network forward updated"
                                             ELSE "Network forward created"],
                          IF pc[i] = "update"
                          THEN [t |-> "failed", v |-> "Failed to update network forward"]
                          ELSE [t |-> "goto", v |-> "rollback"])

\* the delete that follows the failed edit of a created forward
ForwardRaceRollback(i) ==
    /\ pc[i] = "rollback"
    /\ ForwardRaceCommand(i, Cmd("network forward delete",
                                 <<params[i].network, params[i].listen_address>>, <<>>),
                          [t |-> "failed", v |-> "Failed to configure created network forward"],
                          [t |-> "failed", v |-> "Failed to configure created network forward"])

NextForwardRace ==
    \E i \in Reconcilers :
        \/ ForwardRaceFetch(i)
        \/ ForwardRaceCreate(i)
        \/ ForwardRaceEdit(i)
        \/ ForwardRaceRollback(i)
SpecForwardRace == InitForwardRace /\ [][NextForwardRace]_vars

RunCopy ==
    /\ mod = "incus_copy"
    /\ Run(IncusCopy_run(Begin(remote), params, check))

InitCopy == \E task \in CopyTasks : StartTask("incus_copy", task)
NextCopy == RunCopy \/ NextRun
SpecCopy == InitCopy /\ [][NextCopy]_vars

RunExport ==
    /\ mod = "incus_export"
    /\ Run(IncusExport_run(Begin(remote), params, check))

InitExport == \E task \in ExportTasks : StartTask("incus_export", task)
NextExport == RunExport \/ NextRun
SpecExport == InitExport /\ [][NextExport]_vars

(***************************************************************************)
(* Properties.                                                             *)
(***************************************************************************)
Finished == pc = "done"
LiveRun == pc = "done" /\ ~check
DryRun == pc = "done" /\ check
ThisRun == hist[Len(hist)]
Verbs(q) == {q[i].verb : i \in DOMAIN q}
AllSucceeded(q) == \A i \in DOMAIN q : q[i].rc = 0
Outcome(res) == <<res.status, res.changed>>

\* C1: a run with check_mode=true issues no mutating sub-command, whatever
\* the module, its parameters and the state of the server.
C1_CheckModeIssuesNothing == DryRun => cmds = <<>>

\* two live runs in succession, the first one successful
C2_Applies ==
    /\ Len(hist) >= 3
    /\ mod \in {"incus_instance", "incus_storage", "incus_snapshot"}
    /\ params.state = "present"
    /\ hist[2].result.status = "ok"
    /\ AllSucceeded(hist[2].cmds)
    /\ hist[3].before = hist[2].after
\* C2: state=present is idempotent: after a live run whose sub-commands all
\* succeeded, the next live run with the same parameters on the server state
\* the first one left issues no mutating sub-command and reports
\* changed=false.
C2_SecondRunChangesNothing ==
    C2_Applies => hist[3].cmds = <<>> /\ Outcome(hist[3].result) = <<"ok", FALSE>>

\* C3: from the same server state and with the same parameters, the dry run
\* reports what the live run reports when all its sub-commands succeed.
C3_CheckPredictsLive ==
    (Len(hist) >= 2 /\ AllSucceeded(hist[2].cmds))
        => Outcome(hist[1].result) = Outcome(hist[2].result)

\* the desired and the current config map of a run, and the `config set` it issued
C4_Desired == IF mod = "incus_instance" THEN params.config ELSE params.config.items
C4_Current == ThisRun.before.instances["web"].config
C4_Differing ==
    {k \in Keys(C4_Desired) :
        k \notin DOMAIN C4_Current \/ C4_Current[k] # str(Lookup(C4_Desired, k))}
C4_SetAt == {i \in DOMAIN cmds : cmds[i].verb = "config set"}
C4_Applies ==
    /\ LiveRun
    /\ mod \in {"incus_instance", "incus_config"}
    /\ params.state = "present"
    /\ "web" \in DOMAIN ThisRun.before.instances
    /\ mod = "incus_config" => params.config.t = "dict"
\* C4: state=present of incus_config and incus_instance on an existing
\* instance issues `config set` for exactly the desired keys whose str()
\* differs from the current value, once each and with that str(), and leaves
\* every key that the desired map does not name as it was.
C4_PartialUpdate ==
    C4_Applies =>
        /\ \A i \in C4_SetAt :
              /\ cmds[i].b[1] \in C4_Differing
              /\ cmds[i].b[2] = str(Lookup(C4_Desired, cmds[i].b[1]))
              /\ \A j \in C4_SetAt : cmds[j].b[1] = cmds[i].b[1] => j = i
        /\ "config unset" \notin Verbs(cmds)
        /\ result.status = "ok" => {cmds[i].b[1] : i \in C4_SetAt} = C4_Differing
        /\ \A k \in DOMAIN C4_Current \ Keys(C4_Desired) :
              /\ k \in DOMAIN ThisRun.after.instances["web"].config
              /\ ThisRun.after.instances["web"].config[k] = C4_Current[k]
C4_Witness ==
    /\ C4_Applies
    /\ mod = "incus_instance"
    /\ result.status = "ok"
    /\ Cardinality(C4_SetAt) = 1
    /\ DOMAIN C4_Current \ Keys(C4_Desired) # {}

\* the device names the task lists
C5_DesiredNames ==
    IF mod = "incus_instance" THEN Keys(params.devices)
    ELSE IF params.devices.t = "dict" THEN Keys(params.devices.items)
    ELSE IF params.devices.t = "list" THEN Range(params.devices.items)
    ELSE {}
C5_Applies ==
    /\ Finished
    /\ mod \in {"incus_instance", "incus_config"}
    /\ params.state = "present"
\* C5: with state=present, incus_config and incus_instance never issue
\* `config device remove`, and a device of the instance that the desired
\* devices do not name is still there, unchanged, after the run.
C5_DevicesKept ==
    C5_Applies =>
        /\ "config device remove" \notin Verbs(cmds)
        /\ "web" \in DOMAIN ThisRun.before.instances =>
              /\ "web" \in DOMAIN ThisRun.after.instances
              /\ \A d \in DOMAIN ThisRun.before.instances["web"].devices \ C5_DesiredNames :
                    /\ d \in DOMAIN ThisRun.after.instances["web"].devices
                    /\ ThisRun.after.instances["web"].devices[d]
                           = ThisRun.before.instances["web"].devices[d]
C5_Witness ==
    /\ C5_Applies
    /\ mod = "incus_config"
    /\ ~check
    /\ result.status = "ok"
    /\ "config device set" \in Verbs(cmds)
    /\ "web" \in DOMAIN ThisRun.before.instances
    /\ DOMAIN ThisRun.before.instances["web"].devices \ C5_DesiredNames # {}

\* a rename whose source and target both exist
C6_Conflict ==
    /\ Finished
    /\ mod = "incus_instance"
    /\ params.state = "present"
    /\ given(params.rename_from)
    /\ {params.rename_from, params.name} \subseteq DOMAIN ThisRun.before.instances
\* C6: with rename_from set, when both the rename_from resource and the
\* target exist the run fails and issues no mutating sub-command.
C6_RenameConflictFails ==
    C6_Conflict => result.status = "failed" /\ cmds = <<>>

\* a live unforced delete of a pool the server reports as in use
C7_Applies ==
    /\ LiveRun
    /\ mod = "incus_storage"
    /\ params.state = "absent"
    /\ ~params.force
    /\ params.name \in DOMAIN ThisRun.before.pools
    /\ \E i \in DOMAIN cmds : in_use(cmds[i].err)
\* C7: incus_storage state=absent, force=false, on an existing pool whose
\* deletion the server rejects as in use: the run fails, the pool is still
\* there, and the only mutating sub-command was one plain `storage delete`.
C7_InUseDeleteFails ==
    C7_Applies =>
        /\ result.status = "failed"
        /\ params.name \in DOMAIN ThisRun.after.pools
        /\ ThisRun.after.pools[params.name] = ThisRun.before.pools[params.name]
        /\ Len(cmds) = 1
        /\ cmds[1].verb = "storage delete"
        /\ cmds[1].a = params.name
        /\ cmds[1].b = <<>>
C7_Witness ==
    /\ C7_Applies
    /\ ThisRun.before.pools[params.name].used
    /\ result.status = "failed"

\* a live forced delete of a pool that is in use
C8_Applies ==
    /\ LiveRun
    /\ mod = "incus_storage"
    /\ params.state = "absent"
    /\ params.force
    /\ params.name \in DOMAIN ThisRun.before.pools
    /\ ThisRun.before.pools[params.name].used
\* C8: state=absent with force=true on a resource in use: the dependents
\* are detached or removed before the delete is issued, and when every
\* sub-command succeeds the run reports changed=true with the resource gone.
C8_ForcedDeleteCascades ==
    C8_Applies =>
        /\ cmds # <<>>
        /\ cmds[1].verb # "storage delete"
        /\ AllSucceeded(cmds) =>
              /\ Outcome(result) = <<"ok", TRUE>>
              /\ params.name \notin DOMAIN ThisRun.after.pools

\* C9: a live run in which a mutating sub-command exited non-zero ends in
\* failure; it never reports success.
C9_FailedCommandFailsRun ==
    (LiveRun /\ ~AllSucceeded(cmds)) => result.status = "failed"

\* C10: in a live run no mutating sub-command is issued after the first one
\* that exited non-zero.
C10_NothingAfterFailure ==
    LiveRun => \A i \in DOMAIN cmds : cmds[i].rc # 0 => i = Len(cmds)

\* a live incus_config run that unsets a list of keys of an existing instance
C11_Listed == Range(params.config.items) \cap DOMAIN C4_Current
C11_UnsetAt == {i \in DOMAIN cmds : cmds[i].verb = "config unset"}
C11_Applies ==
    /\ LiveRun
    /\ mod = "incus_config"
    /\ params.state = "absent"
    /\ params.config.t = "list"
    /\ params.devices.t = "NoneType"
    /\ "web" \in DOMAIN ThisRun.before.instances
\* C11: incus_config state=absent with a list of keys issues one `config
\* unset` for each listed key the instance holds, nothing for the others,
\* never `config set`, and reports changed=true exactly when a listed key
\* was held.
C11_ExplicitUnset ==
    C11_Applies =>
        /\ \A i \in C11_UnsetAt :
              /\ cmds[i].b \in C11_Listed
              /\ \A j \in C11_UnsetAt : cmds[j].b = cmds[i].b => j = i
        /\ Verbs(cmds) \subseteq {"config unset"}
        /\ result.status = "ok" =>
              /\ {cmds[i].b : i \in C11_UnsetAt} = C11_Listed
              /\ result.changed = (C11_Listed # {})
              /\ DOMAIN ThisRun.after.instances["web"].config
                     = DOMAIN C4_Current \ C11_Listed
C11_Witness ==
    /\ C11_Applies
    /\ result.status = "ok"
    /\ Len(params.config.items) = 2
    /\ params.config.items[1] = params.config.items[2]
    /\ Cardinality(C11_UnsetAt) = 1
    /\ DOMAIN C4_Current \ C11_Listed # {}

\* the desired config keys whose value is None, in a live state=present run
\* of incus_instance or incus_config on an existing instance
C12_NoneKeys == {k \in Keys(C4_Desired) : Lookup(C4_Desired, k).t = "NoneType"}
\* C12: a desired config key whose value is None is unset when the instance
\* holds it, produces no command when it does not, and is never set.
C12_NoneMeansUnset ==
    C4_Applies =>
        \A k \in C12_NoneKeys :
            /\ \A i \in C4_SetAt : cmds[i].b[1] # k
            /\ k \notin DOMAIN C4_Current =>
                  \A i \in DOMAIN cmds : cmds[i].verb = "config unset" => cmds[i].b # k
            /\ (k \in DOMAIN C4_Current /\ result.status = "ok") =>
                  \E i \in DOMAIN cmds : cmds[i].verb = "config unset" /\ cmds[i].b = k

\* the desired devices of a task, and the attributes of a desired device that
\* differ from what the instance holds for it
C13_Devices ==
    IF mod = "incus_instance" THEN params.devices
    ELSE IF params.devices.t = "dict" THEN params.devices.items ELSE <<>>
C13_Differing(d) ==
    LET conf == Lookup(C13_Devices, d)
        cur == ThisRun.before.instances["web"].devices[d]
    IN {k \in Keys(conf) \ {"type"} :
          k \notin DOMAIN cur \/ cur[k] # str(Lookup(conf, k))}
\* C13: with state=present, for a desired device the instance already has,
\* a device-attribute set is issued for every desired attribute other than
\* `type` whose stringified value differs from the current one.
C13_DeviceAttributeDiff ==
    (/\ LiveRun
     /\ mod \in {"incus_instance", "incus_config"}
     /\ params.state = "present"
     /\ "web" \in DOMAIN ThisRun.before.instances
     /\ result.status = "ok") =>
        \A d \in Keys(C13_Devices) \cap DOMAIN ThisRun.before.instances["web"].devices :
            \A k \in C13_Differing(d) :
                \E i \in DOMAIN cmds :
                    /\ cmds[i].verb = "config device set"
                    /\ cmds[i].b = [name |-> d, key |-> k,
                                    val |-> str(Lookup(Lookup(C13_Devices, d), k))]

\* a finished state=frozen / state=unfrozen run on an existing instance, and
\* the status the instance had
C14_Applies(state) ==
    /\ Finished
    /\ mod = "incus_instance"
    /\ params.state = state
    /\ params.name \in DOMAIN ThisRun.before.instances
C14_Status == ThisRun.before.instances[params.name].status
C14_Refused == result.status = "failed" /\ Verbs(cmds) \cap {"pause", "resume"} = {}
\* C14: state=frozen fails whenever the instance is not running and
\* state=unfrozen fails whenever it is not frozen, without pause or resume.
C14_FreezeGuards ==
    /\ (C14_Applies("frozen") /\ C14_Status # "Running") => C14_Refused
    /\ (C14_Applies("unfrozen") /\ C14_Status # "Frozen") => C14_Refused
\* C14 as the code has it: an instance already in the wanted state is left
\* alone with changed=false; any other status than the one the transition
\* starts from is fatal; in both cases nothing is issued.
C14_FreezeGuardsOrNoop ==
    /\ (C14_Applies("frozen") /\ C14_Status = "Frozen") =>
           Outcome(result) = <<"ok", FALSE>> /\ cmds = <<>>
    /\ (C14_Applies("frozen") /\ C14_Status \notin {"Running", "Frozen"}) =>
           result.status = "failed" /\ cmds = <<>>
    /\ (C14_Applies("unfrozen") /\ C14_Status = "Running") =>
           Outcome(result) = <<"ok", FALSE>> /\ cmds = <<>>
    /\ (C14_Applies("unfrozen") /\ C14_Status \notin {"Running", "Frozen"}) =>
           result.status = "failed" /\ cmds = <<>>
C14_Witness ==
    /\ C14_Applies("frozen")
    /\ ~check
    /\ C14_Status = "Stopped"
    /\ result.status = "failed"

\* the runs of a lifecycle transition on an instance that does not exist
C15_Transitions == {"restarted", "frozen", "unfrozen", "rebuilt"}
C15_Missing(h) == params.name \notin DOMAIN h.before.instances
\* C15: state restarted, frozen, unfrozen or rebuilt on an instance that does
\* not exist ends in a fatal error without any mutating sub-command, in the
\* dry run and in the live run alike.
C15_MissingInstanceFails ==
    (mod = "incus_instance" /\ params.state \in C15_Transitions) =>
        \A i \in DOMAIN hist :
            C15_Missing(hist[i]) =>
                hist[i].result.status = "failed" /\ hist[i].cmds = <<>>
C15_Witness ==
    /\ LiveRun
    /\ mod = "incus_instance"
    /\ params.state = "restarted"
    /\ Len(hist) = 2
    /\ hist[1].check /\ C15_Missing(hist[1]) /\ hist[1].result.status = "failed"
    /\ C15_Missing(hist[2]) /\ hist[2].result.status = "failed"

\* state=present finds the instance absent, nothing to rename, and neither an
\* image nor empty=true to create it from
C16_NoImage ==
    /\ mod = "incus_instance"
    /\ params.state = "present"
    /\ ~given(params.rename_from)
    /\ params.name \notin DOMAIN ThisRun.before.instances
    /\ ~given(params.remote_image) /\ ~params.empty
\* state=present names a device the instance lacks, without a `type`
C16_NoType ==
    /\ mod = "incus_config"
    /\ params.state = "present"
    /\ params.instance_name \in DOMAIN ThisRun.before.instances
    /\ params.devices.t = "dict"
    /\ \E d \in Keys(params.devices.items) :
          /\ d \notin DOMAIN ThisRun.before.instances[params.instance_name].devices
          /\ ~truthy(pop(Lookup(params.devices.items, d), "type"))
\* C16: when state=present finds the resource absent and a required creation
\* parameter is missing (remote_image for a non-empty instance, `type` for a
\* device to add), the run fails, live and dry, and has issued no init and
\* no `config device add`.
C16_MissingCreationParameterFails ==
    (Finished /\ (C16_NoImage \/ C16_NoType)) =>
        /\ result.status = "failed"
        /\ Verbs(cmds) \cap {"init", "config device add"} = {}

\* state=present with rename_from, and neither profile exists
C17_NothingToRename ==
    /\ Finished
    /\ mod = "incus_profile"
    /\ params.state = "present"
    /\ given(params.rename_from)
    /\ params.rename_from \notin DOMAIN ThisRun.before.profiles
    /\ params.name \notin DOMAIN ThisRun.before.profiles
\* C17: a rename whose source and target are both missing ends in a fatal
\* source-not-found error and issues no mutating sub-command; the target
\* is not created.
C17_RenameOfNothingFails ==
    C17_NothingToRename =>
        /\ result.status = "failed"
        /\ cmds = <<>>
        /\ params.name \notin DOMAIN remote.profiles

\* two live runs in succession of a rename, the first one from a server
\* that has the source and not the target, all its sub-commands succeeding
C18_Applies ==
    /\ Len(hist) >= 3
    /\ mod = "incus_profile"
    /\ params.state = "present"
    /\ given(params.rename_from)
    /\ params.rename_from \in DOMAIN hist[2].before.profiles
    /\ params.name \notin DOMAIN hist[2].before.profiles
    /\ AllSucceeded(hist[2].cmds)
    /\ hist[3].before = hist[2].after
\* C18: rename is idempotent: the first live run renames the source and
\* reports changed=true, and the same task run again (source gone, target
\* present) reports changed=false without failing.
C18_RenameIdempotent ==
    C18_Applies =>
        /\ Outcome(hist[2].result) = <<"ok", TRUE>>
        /\ Verbs(hist[2].cmds) = {"profile rename"}
        /\ Outcome(hist[3].result) = <<"ok", FALSE>>

\* state=absent names an instance, or a path inside an instance, that the
\* server does not have
C19_AlreadyAbsent ==
    /\ Finished
    /\ params.state = "absent"
    /\ \/ /\ mod = "incus_instance"
          /\ params.name \notin DOMAIN ThisRun.before.instances
       \/ /\ mod = "incus_file"
          /\ given(params.dest)
          /\ <<params.name, params.dest>> \notin DOMAIN ThisRun.before.files
\* C19: state=absent on a resource that does not exist issues no mutating
\* sub-command and reports changed=false, in the live run and in the dry
\* run; this includes incus_file on a path the instance does not have.
C19_DeleteIdempotent ==
    C19_AlreadyAbsent => cmds = <<>> /\ Outcome(result) = <<"ok", FALSE>>

\* a live state=present run that succeeded, with all its sub-commands
C20_Applies ==
    /\ LiveRun
    /\ mod = "incus_instance"
    /\ params.state = "present"
    /\ result.status = "ok"
    /\ AllSucceeded(cmds)
\* C20: after a successful live state=present run the instance is running
\* when started=true and stopped when started=false, whatever its status
\* was before the run.
C20_StartedEnforced ==
    C20_Applies =>
        /\ params.name \in DOMAIN remote.instances
        /\ remote.instances[params.name].status =
              IF params.started THEN "Running" ELSE "Stopped"

\* a live state=present run of incus_image that succeeded
C21_Applies == LiveRun /\ mod = "incus_image" /\ params.state = "present"
                  /\ result.status = "ok"
\* C21: after a successful live state=present run with `properties` given,
\* the property map of the image is exactly the given map, stringified;
\* with `properties` omitted no property is set or unset.
C21_PropertiesDeclarative ==
    C21_Applies =>
        IF params.properties.t = "NoneType"
        THEN Verbs(cmds) \cap {"image set-property", "image unset-property"} = {}
        ELSE \A f \in ImageOf(remote, params.alias) :
                remote.images[f].properties = Stored(params.properties.items)

\* `fingerprint` is given and the image found under the alias has another
C22_Mismatch ==
    /\ Finished
    /\ mod = "incus_image"
    /\ params.state \in {"present", "absent"}
    /\ params.fingerprint # <<>>
    /\ \E f \in ImageOf(ThisRun.before, params.alias) : ~startswith(f, params.fingerprint)
\* C22: when `fingerprint` is given and the image found under the alias has
\* a fingerprint that does not start with it, no mutating sub-command is
\* issued: no delete, no refresh, no alias change, no property change.
C22_FingerprintVerified == C22_Mismatch => cmds = <<>>

\* a finished state=present run with `ports` given, on a forward whose
\* description and config match the task; neither list names a protocol
\* and listen port twice
C23_Current == ThisRun.before.forwards[<<params.network, params.listen_address>>]
C23_Distinct(q) ==
    \A i, j \in DOMAIN q :
        (q[i].protocol = q[j].protocol /\ q[i].listen_port = q[j].listen_port) => i = j
C23_Applies ==
    /\ Finished
    /\ mod = "incus_network_forward"
    /\ params.state = "present"
    /\ <<params.network, params.listen_address>> \in DOMAIN ThisRun.before.forwards
    /\ params.ports.t = "list"
    /\ params.description \in {NULL, C23_Current.description}
    /\ \/ params.config.t = "NoneType"
       \/ ~IncusNetworkForward_config_differs(C23_Current.config, params.config.items)
    /\ C23_Distinct(params.ports.items) /\ C23_Distinct(C23_Current.ports)
\* C23: such a run reports changed=false and issues no edit exactly when the
\* set of normalized desired ports equals the set of normalized current
\* ports; the order of the lists does not matter, also when two rules
\* share a listen_port.
C23_PortsComparedAsSets ==
    C23_Applies =>
        ((Outcome(result) = <<"ok", FALSE>> /\ cmds = <<>>)
         <=> {IncusNetworkForward_normalized_desired(x) : x \in Range(params.ports.items)}
               = {IncusNetworkForward_normalized_current(x) : x \in Range(C23_Current.ports)})

\* a finished state=present run with `profiles` given and nothing else to
\* reconcile, on an instance whose profile list names no profile twice
C24_Current == ThisRun.before.instances[params.name]
C24_Applies ==
    /\ Finished
    /\ mod = "incus_instance"
    /\ params.state = "present"
    /\ ~given(params.rename_from)
    /\ params.profiles.t = "list"
    /\ params.config = <<>> /\ params.devices = <<>>
    /\ params.name \in DOMAIN ThisRun.before.instances
    /\ C24_Current.status = IF params.started THEN "Running" ELSE "Stopped"
    /\ Cardinality(Range(C24_Current.profiles)) = Len(C24_Current.profiles)
\* C24: a desired profile list that denotes the same set as the current
\* one, differing only in order or in repeated elements, issues no command
\* and yields changed=false; any other desired list yields, in a live run,
\* exactly one `profile assign` carrying the whole desired list.
C24_ListsComparedAsSets ==
    C24_Applies =>
        IF Range(params.profiles.items) = Range(C24_Current.profiles)
        THEN cmds = <<>> /\ Outcome(result) = <<"ok", FALSE>>
        ELSE check \/ (/\ Len(cmds) = 1
                       /\ cmds[1].verb = "profile assign"
                       /\ cmds[1].b = params.profiles.items)

\* a successful live state=present run with `config` given, on an existing
\* forward
C25_Key == <<params.network, params.listen_address>>
C25_Applies ==
    /\ LiveRun
    /\ mod = "incus_network_forward"
    /\ params.state = "present"
    /\ params.config.t = "dict"
    /\ C25_Key \in DOMAIN ThisRun.before.forwards
    /\ result.status = "ok"
\* C25: every config key the forward had that the given config does not
\* name is still there, with the same value, after the update.
C25_UnmanagedKeysSurvive ==
    C25_Applies =>
        \A k \in DOMAIN ThisRun.before.forwards[C25_Key].config \ Keys(params.config.items) :
            /\ C25_Key \in DOMAIN remote.forwards
            /\ k \in DOMAIN remote.forwards[C25_Key].config
            /\ remote.forwards[C25_Key].config[k] = ThisRun.before.forwards[C25_Key].config[k]

\* a successful live state=present run on a pool that existed
C26_Applies ==
    /\ LiveRun
    /\ mod = "incus_storage"
    /\ params.state = "present"
    /\ params.name \in DOMAIN ThisRun.before.pools
    /\ result.status = "ok"
\* C26: after it the description of the pool is the given one, when one is
\* given, and every given config key has the given value.
C26_StorageConverges ==
    C26_Applies =>
        /\ params.description # NULL =>
              remote.pools[params.name].description = params.description
        /\ \A k \in Keys(params.config) :
              /\ k \in DOMAIN remote.pools[params.name].config
              /\ remote.pools[params.name].config[k] = str(Lookup(params.config, k))


\* C27: two state=present reconciliations of one absent storage pool can both
\* observe it absent and both issue create; then at most one create exits 0,
\* every reconciler whose create exits non-zero ends failed, the pool exists
\* exactly when a create exited 0, and when the only non-zero exits are the
\* server's rejections exactly one create exited 0 and the pool exists.
C27_BothCreate ==
    /\ params.state = "present"
    /\ \A i \in Reconcilers :
          /\ pc[i] = "done"
          /\ ~hist[i].found
          /\ Len(cmds[i]) = 1
          /\ cmds[i][1].verb = "storage create"
C27_Created == {i \in Reconcilers : cmds[i][1].rc = 0}
C27_OnlyRejections ==
    \A i \in Reconcilers : cmds[i][1].err # "Error: not reachable"
C27_CreateRace ==
    C27_BothCreate =>
        /\ Cardinality(C27_Created) <= 1
        /\ \A i \in Reconcilers \ C27_Created : result[i].status = "failed"
        /\ \A i \in C27_Created : Outcome(result[i]) = <<"ok", TRUE>>
        /\ params.name \in DOMAIN remote.pools <=> C27_Created # {}
        /\ C27_OnlyRejections => Cardinality(C27_Created) = 1
C27_Witness ==
    /\ C27_BothCreate
    /\ C27_OnlyRejections
    /\ \E i \in Reconcilers :
          /\ cmds[i][1].err = "Error: rejected"
          /\ result[i].status = "failed"
    /\ params.name \in DOMAIN remote.pools

\* C28: a run of incus_snapshot with state=renamed ends failed, with no
\* `snapshot rename` issued, when the snapshot snapshot_name and a snapshot
\* new_name both exist; and ends failed when snapshot_name does not exist.
C28_Applies ==
    /\ Finished /\ mod = "incus_snapshot" /\ params.state = "renamed"
    /\ given(params.snapshot_name) /\ given(params.new_name)
C28_RenameRule ==
    C28_Applies =>
        LET S == DOMAIN ThisRun.before.snapshots
            old == <<params.instance, params.snapshot_name>>
            new == <<params.instance, params.new_name>>
        IN /\ (old \in S /\ new \in S) =>
                  /\ result.status = "failed"
                  /\ "snapshot rename" \notin Verbs(cmds)
           /\ old \notin S => result.status = "failed"

\* C29: a run of incus_storage_volume with state=imported and import_from
\* set reaches a normal result, success or a reported failure, whatever name
\* and content_type are; a live one issues one `storage volume import` and
\* reports changed=true when it succeeds.
C29_Applies ==
    /\ Finished /\ mod = "incus_storage_volume" /\ params.state = "imported"
    /\ given(params.import_from)
C29_ImportsVolume ==
    C29_Applies =>
        /\ result.status \in {"ok", "failed"}
        /\ LiveRun =>
              /\ Len(cmds) >= 1
              /\ cmds[1].verb = "storage volume import"
              /\ cmds[1].rc = 0 => Outcome(result) = <<"ok", TRUE>>

\* C30: in a run of incus_instance without rename_from, an existence query
\* that exits non-zero or returns undecodable output makes the instance
\* absent to the module: state=absent ends changed=false with no delete
\* issued, and a live state=present with its creation parameters issues a
\* create first.  When the query succeeds and returns the instance,
\* state=absent does not report it absent and state=present issues no create.
C30_Applies ==
    /\ Finished /\ mod = "incus_instance" /\ ~given(params.rename_from)
    /\ params.state \in {"absent", "present"}
C30_QueryFailed == ThisRun.before.list \in {"exit 1", "undecodable"}
C30_Returned ==
    ThisRun.before.list = "ok" /\ params.name \in DOMAIN ThisRun.before.instances
C30_LenientExistenceCheck ==
    C30_Applies =>
        /\ (C30_QueryFailed /\ params.state = "absent") =>
              /\ Outcome(result) = <<"ok", FALSE>>
              /\ cmds = <<>>
        /\ (C30_QueryFailed /\ params.state = "present" /\ ~check
              /\ (given(params.remote_image) \/ params.empty)) =>
              /\ Len(cmds) >= 1
              /\ cmds[1].verb = "init"
        /\ (C30_QueryFailed /\ params.state = "present" /\ check) =>
              Outcome(result) = <<"ok", TRUE>>
        /\ (C30_Returned /\ params.state = "absent") =>
              /\ result.msg # "Instance already absent"
              /\ check => Outcome(result) = <<"ok", TRUE>>
              /\ ~check => Verbs(cmds) = {"delete"}
        /\ (C30_Returned /\ params.state = "present") =>
              /\ "init" \notin Verbs(cmds)
              /\ result.msg # "Instance would be created"
\* the query fails for an instance that exists: a live state=absent leaves it
\* there and reports changed=false
C30_Witness ==
    /\ C30_Applies /\ LiveRun /\ C30_QueryFailed
    /\ params.state = "absent"
    /\ params.name \in DOMAIN remote.instances
    /\ Outcome(result) = <<"ok", FALSE>>

\* C31: a live run that ends in success with changed=false has issued no
\* mutating sub-command; state=present of incus_instance on an existing
\* instance that lacks a desired device is such a run.
C31_Applies == LiveRun /\ Outcome(result) = <<"ok", FALSE>>
C31_UnchangedMeansUntouched == C31_Applies => cmds = <<>>

\* C32: a live run of incus_network that reports changed=true has issued at
\* least one mutating sub-command that succeeded; state=present on an
\* existing network with description given as the empty string while the
\* current description is non-empty is such a run.
C32_Applies == LiveRun /\ mod = "incus_network" /\ Outcome(result) = <<"ok", TRUE>>
C32_ChangedMeansMutated == C32_Applies => \E i \in DOMAIN cmds : cmds[i].rc = 0

\* the object a task of the three network modules is about, and its commands
C33_Kind ==
    CASE mod = "incus_network_forward" -> "forwards"
      [] mod = "incus_network_acl" -> "acls"
      [] mod = "incus_network_zone" -> "zones"
C33_Target ==
    IF mod = "incus_network_forward" THEN <<params.network, params.listen_address>>
    ELSE params.name
C33_Verbs ==
    CASE mod = "incus_network_forward" ->
            <<"network forward create", "network forward edit", "network forward delete">>
      [] mod = "incus_network_acl" ->
            <<"network acl create", "network acl edit", "network acl delete">>
      [] mod = "incus_network_zone" ->
            <<"network zone create", "network zone edit", "network zone delete">>
\* a live state=present on an absent object whose create succeeded and whose
\* edit then failed
C33_Applies ==
    /\ LiveRun
    /\ mod \in {"incus_network_forward", "incus_network_acl", "incus_network_zone"}
    /\ params.state = "present"
    /\ C33_Target \notin DOMAIN ThisRun.before[C33_Kind]
    /\ Len(cmds) >= 2
    /\ cmds[1].verb = C33_Verbs[1] /\ cmds[1].rc = 0
    /\ cmds[2].verb = C33_Verbs[2] /\ cmds[2].rc # 0
\* C33: for incus_network_forward, incus_network_acl and incus_network_zone
\* with state=present on an absent object, when the create succeeds and the
\* edit that follows fails, a delete of the created object is issued and the
\* run fails; when that delete succeeds the object is absent again and the
\* server is as it was before the run.
C33_CreateRollback ==
    C33_Applies =>
        /\ Len(cmds) = 3
        /\ cmds[3].verb = C33_Verbs[3]
        /\ cmds[3].a = C33_Target
        /\ result.status = "failed"
        /\ cmds[3].rc = 0 =>
              /\ C33_Target \notin DOMAIN remote[C33_Kind]
              /\ remote = ThisRun.before
C33_Witness ==
    /\ C33_Applies
    /\ mod = "incus_network_acl"
    /\ Len(cmds) = 3 /\ cmds[3].rc = 0
    /\ result.status = "failed"
    /\ remote = ThisRun.before

\* C34: when several state=present runs of incus_network_forward on the same
\* forward execute concurrently, and no state=absent run does, once all of
\* them have finished the forward exists if one of them reported success.
C34_AllFinished == \A i \in Reconcilers : pc[i] = "done"
C34_PresentNotUndone ==
    (C34_AllFinished /\ \E i \in Reconcilers : result[i].status = "ok") =>
        \A i \in Reconcilers :
            <<params[i].network, params[i].listen_address>> \in DOMAIN remote.forwards

\* what a finished run h of incus_copy with move=true did, by the instances
\* that existed when it began
C35_MoveRule(h) ==
    LET I == DOMAIN h.before.instances
        src == params.source \in I
        dst == params.dest \in I
    IN /\ (src /\ ~dst /\ ~h.check) =>
             /\ Len(h.cmds) = 1
             /\ h.cmds[1].verb = "move"
             /\ h.cmds[1].a = params.source /\ h.cmds[1].b = params.dest
             /\ h.cmds[1].rc = 0 => Outcome(h.result) = <<"ok", TRUE>>
             /\ h.cmds[1].rc # 0 => h.result.status = "failed"
       /\ (src /\ ~dst /\ h.check) => h.cmds = <<>> /\ Outcome(h.result) = <<"ok", TRUE>>
       /\ (~src /\ dst) => h.cmds = <<>> /\ Outcome(h.result) = <<"ok", FALSE>>
       /\ (~src /\ ~dst) => h.cmds = <<>> /\ h.result.status = "failed"
       /\ (src /\ dst) => h.cmds = <<>> /\ h.result.status = "failed"
\* C35: incus_copy with move=true decides by the existence of source and
\* destination: only the source exists, one move is issued and the run
\* reports changed=true when it succeeds; only the destination exists, no
\* command and changed=false; neither exists, or both, a fatal error with no
\* command.  So two successive live runs, the first one successful on a
\* source without destination, report changed=true then changed=false.
C35_MoveByExistence ==
    (mod = "incus_copy" /\ params.move) =>
        /\ \A i \in DOMAIN hist : C35_MoveRule(hist[i])
        /\ (/\ Len(hist) = 3
            /\ params.source \in DOMAIN hist[2].before.instances
            /\ params.dest \notin DOMAIN hist[2].before.instances
            /\ hist[2].result.status = "ok") =>
               /\ Outcome(hist[2].result) = <<"ok", TRUE>>
               /\ Outcome(hist[3].result) = <<"ok", FALSE>>
C35_Witness ==
    /\ mod = "incus_copy" /\ params.move
    /\ Len(hist) = 3
    /\ Verbs(hist[2].cmds) = {"move"}
    /\ Outcome(hist[2].result) = <<"ok", TRUE>>
    /\ hist[3].cmds = <<>>
    /\ Outcome(hist[3].result) = <<"ok", FALSE>>

\* C36: a regular file that exists at `path` before a run of incus_export is
\* still there after it, unless the run is live with force=true and its
\* export succeeded: the dry run, force=false and a failed export leave the
\* file in place.
C36_Applies ==
    /\ Finished /\ mod = "incus_export"
    /\ params.path \in DOMAIN ThisRun.before.local
C36_Replaced ==
    /\ ~check /\ params.force
    /\ \E i \in DOMAIN cmds : cmds[i].verb = "export" /\ cmds[i].rc = 0
C36_DestinationPreserved ==
    (C36_Applies /\ ~C36_Replaced) =>
        /\ params.path \in DOMAIN remote.local
        /\ remote.local[params.path] = ThisRun.before.local[params.path]
====
